---- MODULE Spec2Model ----
(***************************************************************************)
(* Quota-aware API access layer of YouFocus: the API key manager           *)
(* (services/APIKeyManager.ts), the response cache (services/APICache.ts), *)
(* the search bridge (services/SearchService.ts) and the API client        *)
(* (services/YouTubeAPIClient.ts).                                         *)
(*                                                                         *)
(* Times are in minutes (the source counts milliseconds; every duration in *)
(* the source is a whole number of minutes).                               *)
(***************************************************************************)
EXTENDS Integers, Sequences, FiniteSets, TLC

\* ------------------------------------------------------------------ bounds

\* Clock value at construction (23:55 of day 0) and the last clock value explored.
StartNow == 1435
MaxNow == 1440
\* Cap on a key's consecutiveErrors counter in the manager specification.
MaxErrors == 2
MaxHits == 3
\* Cap on the rotateKey() calls of the round-robin specification.
MaxRotations == 6
\* Cap on the transient errors reported in a row against one key in the backoff
\* specification.
MaxBackoffErrors == 6
\* The longest list of video ids passed to getVideoDetails.
MaxIds == 101
\* The longest key list a rotator is constructed with.
MaxRotatorKeys == 6
\* The calls made on one rotator.
MaxRotatorCalls == 10

\* ------------------------------------------------------- program constants

baseRetryDelay == 5
maxRetryDelay == 60
\* One day: "tomorrow.setDate(tomorrow.getDate() + 1); setHours(0, 0, 0, 0)".
DayLen == 1440

\* ------------------------------------------------------------ JS helpers

\* undefined / null of the source; numbers and strings are kept apart.
Undefined == -1
Null == "null"
NoError == "undefined"

\* JS truthiness of an optional number: undefined and 0 are falsy.
Truthy(x) == x # Undefined /\ x # 0

Range(s) == {s[i] : i \in 1..Len(s)}

\* Array.prototype.includes
Includes(s, x) == \E i \in 1..Len(s) : s[i] = x

Min2(a, b) == IF a < b THEN a ELSE b
Max2(a, b) == IF a > b THEN a ELSE b

RECURSIVE Pow2(_)
Pow2(n) == IF n <= 0 THEN 1 ELSE 2 * Pow2(n - 1)

\* ------------------------------------------------------------ APIKeyManager

Keys == {"K1", "K2", "K3"}

\* Key lists the manager is constructed with (non-empty; a list may repeat a key).
Pools == {<<"K1">>, <<"K1", "K2">>, <<"K1", "K2", "K3">>, <<"K1", "K1">>}

\* The message reported with an error: a quota error is recognised by its message.
ErrorMessage(isQuotaError) == IF isQuotaError THEN "quotaExceeded" ELSE "networkError"

\* Variant: the pointer starts at the last key.
NewAPIKeyManagerAtLastKey(apiKeys) ==
    [apiKeys |-> apiKeys,
     currentKeyIndex |-> Len(apiKeys) - 1,
     keyStatuses |-> [k \in Range(apiKeys) |->
        [key |-> k, isActive |-> TRUE, quotaExhausted |-> FALSE,
         consecutiveErrors |-> 0, lastError |-> NoError,
         lastErrorTime |-> Undefined, nextRetryTime |-> Undefined]]]

\* constructor: every key active, pointer at index 0 (indices are 0-based as in the source).
NewAPIKeyManager(apiKeys) ==
    [apiKeys |-> apiKeys,
     currentKeyIndex |-> 0,
     keyStatuses |-> [k \in Range(apiKeys) |->
        [key |-> k, isActive |-> TRUE, quotaExhausted |-> FALSE,
         consecutiveErrors |-> 0, lastError |-> NoError,
         lastErrorTime |-> Undefined, nextRetryTime |-> Undefined]]]

\* No manager: what the caller holds when the constructor has thrown.
NoManager == [apiKeys |-> <<>>, currentKeyIndex |-> 0, keyStatuses |-> <<>>]

\* new APIKeyManager(apiKeys): the object, or the Error thrown for an empty list.
APIKeyManagerConstructor(apiKeys) ==
    IF Len(apiKeys) = 0
    THEN [ok |-> FALSE, error |-> "At least one API key is required", m |-> NoManager]
    ELSE [ok |-> TRUE, error |-> NoError, m |-> NewAPIKeyManager(apiKeys)]

\* Variant: the filter without the reactivation of keys whose retry time has passed.
getAvailableKeysNoReactivation(m, t) ==
    LET blocked(s) == Truthy(s.nextRetryTime) /\ t < s.nextRetryTime
        keep(k) == ~blocked(m.keyStatuses[k]) /\ m.keyStatuses[k].isActive
                      /\ ~m.keyStatuses[k].quotaExhausted
    IN [m |-> m, keys |-> SelectSeq(m.apiKeys, keep)]

\* getAvailableKeys: the filter over apiKeys, with its lazy reactivation side effect.
getAvailableKeys(m, t) ==
    LET blocked(s) == Truthy(s.nextRetryTime) /\ t < s.nextRetryTime
        elapsed(s) == Truthy(s.nextRetryTime) /\ t >= s.nextRetryTime /\ ~s.quotaExhausted
        st == [k \in DOMAIN m.keyStatuses |->
                 IF elapsed(m.keyStatuses[k])
                 THEN [m.keyStatuses[k] EXCEPT !.isActive = TRUE, !.nextRetryTime = Undefined]
                 ELSE m.keyStatuses[k]]
        keep(k) == ~blocked(m.keyStatuses[k]) /\ st[k].isActive /\ ~st[k].quotaExhausted
    IN [m |-> [m EXCEPT !.keyStatuses = st], keys |-> SelectSeq(m.apiKeys, keep)]

\* Variant: the last matching index instead of the first.
findLastIndexAvailable(apiKeys, availableKeys) ==
    IF \E i \in 1..Len(apiKeys) : Includes(availableKeys, apiKeys[i])
    THEN (CHOOSE i \in 1..Len(apiKeys) :
            /\ Includes(availableKeys, apiKeys[i])
            /\ \A j \in (i + 1)..Len(apiKeys) : ~Includes(availableKeys, apiKeys[j])) - 1
    ELSE -1

\* Array.prototype.findIndex(key => availableKeys.includes(key)), 0-based, -1 if none.
findIndexAvailable(apiKeys, availableKeys) ==
    IF \E i \in 1..Len(apiKeys) : Includes(availableKeys, apiKeys[i])
    THEN (CHOOSE i \in 1..Len(apiKeys) :
            /\ Includes(availableKeys, apiKeys[i])
            /\ \A j \in 1..(i - 1) : ~Includes(availableKeys, apiKeys[j])) - 1
    ELSE -1

getCurrentKey(m, t) ==
    LET a == getAvailableKeys(m, t)
        m1 == a.m
        currentKey == m1.apiKeys[m1.currentKeyIndex + 1]
        nextKeyIndex == findIndexAvailable(m1.apiKeys, a.keys)
        m2 == IF ~Includes(a.keys, currentKey) /\ nextKeyIndex # -1
              THEN [m1 EXCEPT !.currentKeyIndex = nextKeyIndex]
              ELSE m1
    IN IF Len(a.keys) = 0
       THEN [m |-> m1, ret |-> Null]
       ELSE [m |-> m2, ret |-> m2.apiKeys[m2.currentKeyIndex + 1]]

\* The while loop of rotateKey.
RECURSIVE rotateScan(_, _, _, _)
rotateScan(m, availableKeys, nextIndex, attempts) ==
    IF attempts < Len(m.apiKeys)
    THEN IF Includes(availableKeys, m.apiKeys[nextIndex + 1])
         THEN [m |-> [m EXCEPT !.currentKeyIndex = nextIndex], ret |-> m.apiKeys[nextIndex + 1]]
         ELSE rotateScan(m, availableKeys, (nextIndex + 1) % Len(m.apiKeys), attempts + 1)
    ELSE [m |-> m, ret |-> Null]

\* Variant: the scan starts at the head of the list instead of after the pointer.
rotateKeyFromHead(m, t) ==
    LET a == getAvailableKeys(m, t)
    IN IF Len(a.keys) = 0
       THEN [m |-> a.m, ret |-> Null]
       ELSE rotateScan(a.m, a.keys, 0, 0)

\* Variant: the scan starts two places after the pointer.
rotateKeySkipping(m, t) ==
    LET a == getAvailableKeys(m, t)
    IN IF Len(a.keys) = 0
       THEN [m |-> a.m, ret |-> Null]
       ELSE rotateScan(a.m, a.keys, (a.m.currentKeyIndex + 2) % Len(a.m.apiKeys), 0)

rotateKey(m, t) ==
    LET a == getAvailableKeys(m, t)
    IN IF Len(a.keys) = 0
       THEN [m |-> a.m, ret |-> Null]
       ELSE rotateScan(a.m, a.keys, (a.m.currentKeyIndex + 1) % Len(a.m.apiKeys), 0)

\* Local midnight following t.
nextMidnight(t) == ((t \div DayLen) + 1) * DayLen

\* Variant: the backoff delay has no upper limit.
reportErrorUncapped(m, t, error, isQuotaError) ==
    LET currentKey == m.apiKeys[m.currentKeyIndex + 1]
        s0 == m.keyStatuses[currentKey]
        s1 == [s0 EXCEPT !.lastError = error, !.lastErrorTime = t,
                         !.consecutiveErrors = s0.consecutiveErrors + 1]
        delay == baseRetryDelay * Pow2(s1.consecutiveErrors - 1)
        s2 == IF isQuotaError
              THEN [s1 EXCEPT !.quotaExhausted = TRUE, !.isActive = FALSE,
                              !.nextRetryTime = nextMidnight(t)]
              ELSE [s1 EXCEPT !.nextRetryTime = t + delay, !.isActive = FALSE]
    IN [m EXCEPT !.keyStatuses[currentKey] = s2]

reportError(m, t, error, isQuotaError) ==
    LET currentKey == m.apiKeys[m.currentKeyIndex + 1]
        s0 == m.keyStatuses[currentKey]
        s1 == [s0 EXCEPT !.lastError = error, !.lastErrorTime = t,
                         !.consecutiveErrors = s0.consecutiveErrors + 1]
        delay == Min2(baseRetryDelay * Pow2(s1.consecutiveErrors - 1), maxRetryDelay)
        s2 == IF isQuotaError
              THEN [s1 EXCEPT !.quotaExhausted = TRUE, !.isActive = FALSE,
                              !.nextRetryTime = nextMidnight(t)]
              ELSE [s1 EXCEPT !.nextRetryTime = t + delay, !.isActive = FALSE]
    IN [m EXCEPT !.keyStatuses[currentKey] = s2]

\* Variant: a success also clears the quota flag.
reportSuccessClearingQuota(m) ==
    LET currentKey == m.apiKeys[m.currentKeyIndex + 1]
    IN [m EXCEPT !.keyStatuses[currentKey] =
          [@ EXCEPT !.consecutiveErrors = 0, !.lastError = NoError,
                    !.lastErrorTime = Undefined, !.nextRetryTime = Undefined,
                    !.isActive = TRUE, !.quotaExhausted = FALSE]]

\* Variant: a success resets the counters of every key.
reportSuccessEveryKey(m) ==
    [m EXCEPT !.keyStatuses = [k \in DOMAIN @ |->
        [@[k] EXCEPT !.consecutiveErrors = 0, !.lastError = NoError,
                     !.lastErrorTime = Undefined, !.nextRetryTime = Undefined,
                     !.isActive = TRUE]]]

reportSuccess(m) ==
    LET currentKey == m.apiKeys[m.currentKeyIndex + 1]
    IN [m EXCEPT !.keyStatuses[currentKey] =
          [@ EXCEPT !.consecutiveErrors = 0, !.lastError = NoError,
                    !.lastErrorTime = Undefined, !.nextRetryTime = Undefined,
                    !.isActive = TRUE]]

\* Variant: only the key at the pointer is reset.
resetQuotaStatusCurrentOnly(m) ==
    LET currentKey == m.apiKeys[m.currentKeyIndex + 1]
    IN IF m.keyStatuses[currentKey].quotaExhausted
       THEN [m EXCEPT !.keyStatuses[currentKey] =
               [@ EXCEPT !.quotaExhausted = FALSE, !.isActive = TRUE,
                         !.nextRetryTime = Undefined]]
       ELSE m

\* Variant: the reset reactivates every key, exhausted or not.
resetQuotaStatusEveryKey(m) ==
    [m EXCEPT !.keyStatuses = [k \in DOMAIN @ |->
        [@[k] EXCEPT !.quotaExhausted = FALSE, !.isActive = TRUE,
                     !.nextRetryTime = Undefined]]]

\* Variant: the reset reactivates the exhausted keys and leaves their retry time.
resetQuotaStatusKeepingRetryTime(m) ==
    [m EXCEPT !.keyStatuses = [k \in DOMAIN @ |->
        IF @[k].quotaExhausted
        THEN [@[k] EXCEPT !.quotaExhausted = FALSE, !.isActive = TRUE]
        ELSE @[k]]]

resetQuotaStatus(m) ==
    [m EXCEPT !.keyStatuses = [k \in DOMAIN @ |->
        IF @[k].quotaExhausted
        THEN [@[k] EXCEPT !.quotaExhausted = FALSE, !.isActive = TRUE,
                          !.nextRetryTime = Undefined]
        ELSE @[k]]]

getAvailableKeyCount(m, t) ==
    LET a == getAvailableKeys(m, t) IN [m |-> a.m, ret |-> Len(a.keys)]

NoSummary ==
    [totalKeys |-> 0, availableKeys |-> 0, quotaExhaustedKeys |-> 0, erroredKeys |-> 0,
     currentKey |-> Null]

\* getStatusSummary: the two filters run on the statuses as they are on entry; the
\* returned object then calls getAvailableKeyCount() and getCurrentKey() in that order.
getStatusSummary(m, t) ==
    LET statuses == m.keyStatuses
        quotaExhaustedKeys == Cardinality({k \in DOMAIN statuses : statuses[k].quotaExhausted})
        erroredKeys == Cardinality({k \in DOMAIN statuses :
                          ~statuses[k].isActive /\ ~statuses[k].quotaExhausted})
        c == getAvailableKeyCount(m, t)
        g == getCurrentKey(c.m, t)
    IN [m |-> g.m,
        ret |-> [totalKeys |-> Len(m.apiKeys), availableKeys |-> c.ret,
                 quotaExhaustedKeys |-> quotaExhaustedKeys, erroredKeys |-> erroredKeys,
                 currentKey |-> g.ret]]

\* ------------------------------------------------------- SimpleAPIKeyRotator

\* constructor of SimpleAPIKeyRotator, for a non-empty list: a copy of the
\* list, and currentIndex = 0.
NewSimpleAPIKeyRotator(apiKeys) == [apiKeys |-> apiKeys, currentIndex |-> 0]

\* SimpleAPIKeyRotator.getCurrentKey
rotatorGetCurrentKey(rot) == rot.apiKeys[rot.currentIndex + 1]

\* SimpleAPIKeyRotator.rotateToNext: the rotator after the call and the value
\* returned.
rotateToNext(rot) ==
    LET nextIndex == (rot.currentIndex + 1) % Len(rot.apiKeys)
    IN IF nextIndex = 0 /\ rot.currentIndex # 0
       THEN [rot |-> rot, ret |-> FALSE]
       ELSE [rot |-> [rot EXCEPT !.currentIndex = nextIndex], ret |-> TRUE]

\* ------------------------------------------------------------------ APICache

defaultCacheDuration == 240
\* "24 * 60 * 60 * 1000": the duration search results are cached for.
searchCacheDuration == 1440

EmptyMap == [x \in {} |-> TRUE]
Put(f, k, v) == [x \in (DOMAIN f) \cup {k} |-> IF x = k THEN v ELSE f[x]]
Remove(f, k) == [x \in (DOMAIN f) \ {k} |-> f[x]]

NewAPICache == [channelCache |-> EmptyMap, videoCache |-> EmptyMap]

\* customDuration ?? defaultCacheDuration
Duration(customDuration) ==
    IF customDuration = Undefined THEN defaultCacheDuration ELSE customDuration

setChannel(c, t, key, channel, customDuration) ==
    [c EXCEPT !.channelCache = Put(@, key,
        [data |-> channel, timestamp |-> t, expiresAt |-> t + Duration(customDuration)])]

\* Variant: an entry is still served at the very time it expires.
getChannelLate(c, t, key) ==
    IF key \notin DOMAIN c.channelCache
    THEN [cache |-> c, found |-> FALSE, data |-> <<>>]
    ELSE IF t > c.channelCache[key].expiresAt
         THEN [cache |-> [c EXCEPT !.channelCache = Remove(@, key)],
               found |-> FALSE, data |-> <<>>]
         ELSE [cache |-> c, found |-> TRUE, data |-> c.channelCache[key].data]

\* Returns the cache after the call and the value: found = FALSE stands for null.
getChannel(c, t, key) ==
    IF key \notin DOMAIN c.channelCache
    THEN [cache |-> c, found |-> FALSE, data |-> <<>>]
    ELSE IF t >= c.channelCache[key].expiresAt
         THEN [cache |-> [c EXCEPT !.channelCache = Remove(@, key)],
               found |-> FALSE, data |-> <<>>]
         ELSE [cache |-> c, found |-> TRUE, data |-> c.channelCache[key].data]

\* Variant: the result list is stored with no expiry in the future.
setVideosExpired(c, t, key, videos, customDuration) ==
    [c EXCEPT !.videoCache = Put(@, key,
        [data |-> videos, timestamp |-> t, expiresAt |-> t])]

\* Variant: an entry already stored under the key is kept.
setVideosIfAbsent(c, t, key, videos, customDuration) ==
    IF key \in DOMAIN c.videoCache THEN c
    ELSE [c EXCEPT !.videoCache = Put(@, key,
            [data |-> videos, timestamp |-> t, expiresAt |-> t + Duration(customDuration)])]

setVideos(c, t, key, videos, customDuration) ==
    [c EXCEPT !.videoCache = Put(@, key,
        [data |-> videos, timestamp |-> t, expiresAt |-> t + Duration(customDuration)])]

getVideos(c, t, key) ==
    IF key \notin DOMAIN c.videoCache
    THEN [cache |-> c, found |-> FALSE, data |-> <<>>]
    ELSE IF t >= c.videoCache[key].expiresAt
         THEN [cache |-> [c EXCEPT !.videoCache = Remove(@, key)],
               found |-> FALSE, data |-> <<>>]
         ELSE [cache |-> c, found |-> TRUE, data |-> c.videoCache[key].data]

\* Variant: the key is removed from both mappings.
invalidateChannelEverywhere(c, key) ==
    [c EXCEPT !.channelCache = Remove(@, key), !.videoCache = Remove(@, key)]

invalidateChannel(c, key) == [c EXCEPT !.channelCache = Remove(@, key)]
invalidateVideos(c, key) == [c EXCEPT !.videoCache = Remove(@, key)]
clearChannels(c) == [c EXCEPT !.channelCache = EmptyMap]
clearVideos(c) == [c EXCEPT !.videoCache = EmptyMap]
clearAll(c) == [c EXCEPT !.channelCache = EmptyMap, !.videoCache = EmptyMap]
getChannelCacheSize(c) == Cardinality(DOMAIN c.channelCache)
getVideoCacheSize(c) == Cardinality(DOMAIN c.videoCache)

\* ------------------------------------------------------------------ strings

\* A string is a sequence of characters.
toLowerChar(ch) == IF ch = "A" THEN "a" ELSE IF ch = "B" THEN "b" ELSE ch
toLowerCase(str) == [i \in 1..Len(str) |-> toLowerChar(str[i])]

RECURSIVE trimStart(_)
trimStart(str) ==
    IF Len(str) > 0 /\ str[1] = " " THEN trimStart(Tail(str)) ELSE str

RECURSIVE trimEnd(_)
trimEnd(str) ==
    IF Len(str) > 0 /\ str[Len(str)] = " "
    THEN trimEnd(SubSeq(str, 1, Len(str) - 1))
    ELSE str

\* Variant: nothing is trimmed.
trimNothing(str) == str

trim(str) == trimEnd(trimStart(str))

\* `search:${query.toLowerCase().trim()}`
SearchCacheKey(query) == <<"search", trim(toLowerCase(query))>>

\* ------------------------------------------------------------------ errors

NoErr == [type |-> "none", code |-> 0, message |-> "", userMessage |-> "", retryable |-> FALSE]

createAPIError(code, message, userMessage, retryable) ==
    [type |-> "api", code |-> code, message |-> message, userMessage |-> userMessage,
     retryable |-> retryable]

\* What axios throws: status 0 stands for "no response"; code, userMessage and
\* retryable are not fields of it.
AxiosError(status, message) ==
    [type |-> "axios", code |-> status, message |-> message, userMessage |-> "",
     retryable |-> FALSE]

\* new Error(message)
PlainError(message) ==
    [type |-> "error", code |-> 0, message |-> message, userMessage |-> "",
     retryable |-> FALSE]

isAPIError(e) == e.type = "api"

\* message.toLowerCase().includes('quota'), on the messages the provider sends.
MentionsQuota(message) == message = "quotaExceeded"

\* Variant: a failure object is not recognised and is wrapped again.
handleErrorRewrapping(e) ==
    IF e.type = "axios"
    THEN IF e.code \in {400, 403, 404}
         THEN createAPIError(e.code, e.message, "request refused", FALSE)
         ELSE createAPIError(e.code, e.message, "try again", TRUE)
    ELSE createAPIError(500, e.message, "unexpected error", TRUE)

\* Variant: retryable is decided by the class of the status, every 4xx other
\* than 429 being final.
handleErrorByClass(e) ==
    IF isAPIError(e) THEN e
    ELSE IF e.type = "axios"
    THEN createAPIError(e.code, e.message, "request failed",
                        e.code = 0 \/ e.code = 429 \/ e.code >= 500)
    ELSE createAPIError(500, e.message, "unexpected error", TRUE)

handleError(e) ==
    IF isAPIError(e) THEN e
    ELSE IF e.type = "axios"
    THEN IF e.code = 0
         THEN createAPIError(0, e.message, "Unable to connect", TRUE)
         ELSE IF e.code = 400
         THEN createAPIError(400, e.message, "Invalid request", FALSE)
         ELSE IF e.code = 403
         THEN IF MentionsQuota(e.message)
              THEN createAPIError(403, e.message, "quota exceeded", FALSE)
              ELSE createAPIError(403, e.message, "Access denied", FALSE)
         ELSE IF e.code = 404
         THEN createAPIError(404, e.message, "not found", FALSE)
         ELSE IF e.code = 429
         THEN createAPIError(429, e.message, "Too many requests", TRUE)
         ELSE IF e.code \in {500, 503}
         THEN createAPIError(e.code, e.message, "temporarily unavailable", TRUE)
         ELSE createAPIError(e.code, e.message, "unexpected error", TRUE)
    ELSE createAPIError(500, e.message, "unexpected error", TRUE)

\* ------------------------------------------------------------ the provider
\* What the outside answers to one client call (the "world" of the call):
\*   healthy      the bridge's /api/health answered 200 within 5 s
\*   bridgeThrows the bridge's search request fails
\*   hits         the bridge's hits, [videoId, confidence]
\*   owner        the provider's record of each video's channel (NoChannel: no such video)
\*   existing     the channels the provider knows
\*   reversed     the provider lists channels in reverse order of the request
\*   searchItems  the channel ids the provider's own search finds
\*   fail         the provider calls that fail, by place of call
\*   failure      what a failing provider call throws
\*   malformed    the provider calls answered 200 with a body of the wrong shape
\*   shape        the shape of such a body

Videos == {"vA", "vB"}
\* Channel ids are strings (sequences of characters), as they are trimmed on entry.
Ch1 == <<"c", "1">>
Ch2 == <<"c", "2">>
Channels == {Ch1, Ch2}
NoChannel == <<>>

QuotaFailure == AxiosError(403, "quotaExceeded")
NetworkFailure == AxiosError(0, "networkError")

\* A response body (response.data): whether there is one, whether it has the
\* field "items", whether that field is an array, the items, and whether the
\* items have the fields that mapChannelItem, mapVideoItem and the search read.
Body(items) ==
    [present |-> TRUE, hasItems |-> TRUE, isArray |-> TRUE, items |-> items,
     mappable |-> TRUE]

\* The bodies of the wrong shape: none, one without "items", one whose "items"
\* is not an array, and one whose items lack the fields read from them.
RefusedShapes == {"empty", "noItems", "itemsNotArray"}
Shapes == RefusedShapes \cup {"badItem"}
MalformedBody(shape, items) ==
    [present |-> shape # "empty",
     hasItems |-> shape \in {"itemsNotArray", "badItem"},
     isArray |-> shape = "badItem",
     items |-> IF shape = "badItem" THEN items ELSE <<>>,
     mappable |-> FALSE]

\* validateResponse(response, ['items']): what it throws, NoErr if nothing.
validateResponse(response) ==
    IF ~response.present
    THEN createAPIError(500, "Empty response from API",
                        "Received an invalid response from YouTube", TRUE)
    ELSE IF ~response.hasItems
    THEN createAPIError(500, "Missing required field: items",
                        "Received an invalid response from YouTube", TRUE)
    ELSE IF ~response.isArray
    THEN createAPIError(500, "Invalid items field in response",
                        "Received an invalid response from YouTube", TRUE)
    ELSE NoErr

\* response.items.map(...) and mapChannelItem(response.items[0]): reading a
\* field of an undefined field of an item throws a TypeError.
mapThrows(response) == ~response.mappable /\ Len(response.items) > 0
MappingError == PlainError("TypeError")

\* GET /videos?id=...: one item per requested video the provider has.
RECURSIVE videoItems(_, _)
videoItems(ids, w) ==
    IF ids = <<>> THEN <<>>
    ELSE (IF w.owner[Head(ids)] = NoChannel THEN <<>>
          ELSE <<[id |-> Head(ids), channelId |-> w.owner[Head(ids)]]>>)
         \o videoItems(Tail(ids), w)

Reverse(s) == [i \in 1..Len(s) |-> s[Len(s) + 1 - i]]

\* GET /channels?id=...: one item per requested channel the provider has.
channelItems(ids, w) ==
    LET keep(c) == c \in w.existing
        found == SelectSeq(ids, keep)
    IN IF w.reversed THEN Reverse(found) ELSE found

\* makeAPIRequest: one GET with the client's key; the data, or what axios throws.
\* A key whose quota is used up at the provider gets 403 on every call.
makeAPIRequest(apiKey, exhausted, place, w, items) ==
    IF apiKey \in exhausted
    THEN [ok |-> FALSE, err |-> QuotaFailure, data |-> Body(<<>>)]
    ELSE IF place \in w.fail
    THEN [ok |-> FALSE, err |-> w.failure, data |-> Body(<<>>)]
    ELSE IF place \in w.malformed
    THEN [ok |-> TRUE, err |-> NoErr, data |-> MalformedBody(w.shape, items)]
    ELSE [ok |-> TRUE, err |-> NoErr, data |-> Body(items)]

\* ------------------------------------------------------------ SearchService

\* extractVideoIds: [...new Set(videoIds)], distinct in order of first occurrence.
RECURSIVE Distinct(_)
Distinct(s) ==
    IF s = <<>> THEN <<>>
    ELSE LET front == Distinct(SubSeq(s, 1, Len(s) - 1))
         IN IF Includes(front, s[Len(s)]) THEN front ELSE Append(front, s[Len(s)])

\* Variant: the video id of every hit, repeated ids included.
extractVideoIdsRepeated(searchResults) ==
    [i \in 1..Len(searchResults) |-> searchResults[i].videoId]

extractVideoIds(searchResults) ==
    Distinct([i \in 1..Len(searchResults) |-> searchResults[i].videoId])

\* [...new Set(videoDetails.map(video => video.channelId))]
uniqueChannelIds(videoDetails) ==
    Distinct([i \in 1..Len(videoDetails) |-> videoDetails[i].channelId])

\* --------------------------------------------------------- YouTubeAPIClient

\* A call's outcome: the value returned or the error thrown, the cache after the
\* call, and the outside calls made, in order, each named by its place in the code
\* ("health" and "bridge" go to the bridge, the others to the provider).
Returned(value, cache, calls) ==
    [ok |-> TRUE, value |-> value, err |-> NoErr, cache |-> cache, calls |-> calls]
Thrown(err, cache, calls) ==
    [ok |-> FALSE, value |-> <<>>, err |-> err, cache |-> cache, calls |-> calls]

\* The videoIds.slice(i, i + batchSize) loop.
batchSize == 50
\* Variant: a batch takes one id more than batchSize.
RECURSIVE BatchesOversized(_)
BatchesOversized(ids) ==
    IF Len(ids) = 0 THEN <<>>
    ELSE IF Len(ids) <= batchSize + 1 THEN <<ids>>
    ELSE <<SubSeq(ids, 1, batchSize + 1)>>
            \o BatchesOversized(SubSeq(ids, batchSize + 2, Len(ids)))

RECURSIVE Batches(_)
Batches(ids) ==
    IF Len(ids) = 0 THEN <<>>
    ELSE IF Len(ids) <= batchSize THEN <<ids>>
    ELSE <<SubSeq(ids, 1, batchSize)>> \o Batches(SubSeq(ids, batchSize + 1, Len(ids)))

\* The loop over the batches of getVideoDetails.
RECURSIVE videoBatches(_, _, _, _, _, _, _)
videoBatches(cl, exhausted, batches, w, place, allVideos, calls) ==
    IF batches = <<>> THEN Returned(allVideos, cl.cache, calls)
    ELSE LET r == makeAPIRequest(cl.apiKey, exhausted, place, w, videoItems(Head(batches), w))
         IN IF ~r.ok THEN Thrown(handleError(r.err), cl.cache, Append(calls, place))
            ELSE IF validateResponse(r.data) # NoErr
            THEN Thrown(handleError(validateResponse(r.data)), cl.cache, Append(calls, place))
            ELSE IF mapThrows(r.data)
            THEN Thrown(handleError(MappingError), cl.cache, Append(calls, place))
            ELSE videoBatches(cl, exhausted, Tail(batches), w, place,
                              allVideos \o r.data.items, Append(calls, place))

getVideoDetails(cl, exhausted, videoIds, w, place) ==
    IF Len(videoIds) = 0 THEN Returned(<<>>, cl.cache, <<>>)
    ELSE videoBatches(cl, exhausted, Batches(videoIds), w, place, <<>>, <<>>)

getChannelsByIds(cl, exhausted, channelIds, w, place) ==
    IF Len(channelIds) = 0 THEN Returned(<<>>, cl.cache, <<>>)
    ELSE LET r == makeAPIRequest(cl.apiKey, exhausted, place, w, channelItems(channelIds, w))
         IN IF ~r.ok THEN Thrown(handleError(r.err), cl.cache, <<place>>)
            ELSE IF validateResponse(r.data) # NoErr
            THEN Thrown(handleError(validateResponse(r.data)), cl.cache, <<place>>)
            ELSE IF mapThrows(r.data)
            THEN Thrown(handleError(MappingError), cl.cache, <<place>>)
            ELSE Returned(r.data.items, cl.cache, <<place>>)

\* searchResults.find(sr => sr.videoId === id): the first match, or none.
findHit(searchResults, id) ==
    IF \E i \in 1..Len(searchResults) : searchResults[i].videoId = id
    THEN LET i == CHOOSE i \in 1..Len(searchResults) :
                    /\ searchResults[i].videoId = id
                    /\ \A j \in 1..(i - 1) : searchResults[j].videoId # id
         IN [found |-> TRUE, confidence |-> searchResults[i].confidence]
    ELSE [found |-> FALSE, confidence |-> 0]

\* channelRelevanceMap after the forEach over the first n video details; a channel
\* not in the map reads as 0 ("get(id) || 0").
RECURSIVE relevance(_, _, _, _)
relevance(videoDetails, searchResults, n, channelId) ==
    IF n = 0 THEN 0
    ELSE LET before == relevance(videoDetails, searchResults, n - 1, channelId)
             hit == findHit(searchResults, videoDetails[n].id)
         IN IF videoDetails[n].channelId = channelId /\ hit.found
            THEN Max2(before, hit.confidence)
            ELSE before

\* Array.prototype.sort with (a, b) => confidenceB - confidenceA: stable.
RECURSIVE insertByConfidence(_, _, _, _)
insertByConfidence(sorted, c, videoDetails, searchResults) ==
    LET conf(x) == relevance(videoDetails, searchResults, Len(videoDetails), x)
    IN IF sorted = <<>> THEN <<c>>
       ELSE IF conf(c) > conf(Head(sorted))
            THEN <<c>> \o sorted
            ELSE <<Head(sorted)>> \o insertByConfidence(Tail(sorted), c, videoDetails, searchResults)

RECURSIVE sortByConfidence(_, _, _)
sortByConfidence(channels, videoDetails, searchResults) ==
    IF channels = <<>> THEN <<>>
    ELSE insertByConfidence(
            sortByConfidence(SubSeq(channels, 1, Len(channels) - 1), videoDetails, searchResults),
            channels[Len(channels)], videoDetails, searchResults)

searchChannelsViaService(cl, exhausted, t, query, cacheKey, w) ==
    IF w.bridgeThrows
    THEN Thrown(handleError(PlainError("bridgeFailed")), cl.cache, <<"bridge">>)
    ELSE IF Len(w.hits) = 0
    THEN Returned(<<>>, cl.cache, <<"bridge">>)
    ELSE LET videoIds == extractVideoIds(w.hits)
             vd == getVideoDetails(cl, exhausted, videoIds, w, "bridge.videos")
             videoDetails == vd.value
             channelIds == uniqueChannelIds(videoDetails)
             ch == getChannelsByIds(cl, exhausted, channelIds, w, "bridge.channels")
             channels == sortByConfidence(ch.value, videoDetails, w.hits)
         IN IF ~vd.ok
            THEN Thrown(handleError(vd.err), cl.cache, <<"bridge">> \o vd.calls)
            ELSE IF Len(channelIds) = 0
            THEN Returned(<<>>, cl.cache, <<"bridge">> \o vd.calls)
            ELSE IF ~ch.ok
            THEN Thrown(handleError(ch.err), cl.cache, <<"bridge">> \o vd.calls \o ch.calls)
            ELSE Returned(channels,
                          setVideos(cl.cache, t, cacheKey, channels, searchCacheDuration),
                          <<"bridge">> \o vd.calls \o ch.calls)

searchChannelsViaAPI(cl, exhausted, t, query, cacheKey, w) ==
    LET r == makeAPIRequest(cl.apiKey, exhausted, "native.search", w, w.searchItems)
        channelIds == r.data.items
        ch == getChannelsByIds(cl, exhausted, channelIds, w, "native.channels")
    IN IF ~r.ok
       THEN Thrown(handleError(r.err), cl.cache, <<"native.search">>)
       ELSE IF validateResponse(r.data) # NoErr
       THEN Thrown(handleError(validateResponse(r.data)), cl.cache, <<"native.search">>)
       ELSE IF mapThrows(r.data)
       THEN Thrown(handleError(MappingError), cl.cache, <<"native.search">>)
       ELSE IF Len(channelIds) = 0
       THEN Returned(<<>>, cl.cache, <<"native.search">>)
       ELSE IF ~ch.ok
       THEN Thrown(handleError(ch.err), cl.cache, <<"native.search">> \o ch.calls)
       ELSE Returned(ch.value,
                     setVideos(cl.cache, t, cacheKey, ch.value, searchCacheDuration),
                     <<"native.search">> \o ch.calls)

\* Variant: a failure of the bridge branch is handed to the caller.
searchChannelsNoFallback(cl, exhausted, t, query, w) ==
    LET cacheKey == SearchCacheKey(query)
        cached == getVideos(cl.cache, t, cacheKey)
        cl1 == [cl EXCEPT !.cache = cached.cache]
        viaService == searchChannelsViaService(cl1, exhausted, t, query, cacheKey, w)
        viaAPI == searchChannelsViaAPI(cl1, exhausted, t, query, cacheKey, w)
    IN IF Len(trim(query)) = 0
       THEN Thrown(createAPIError(400, "Search query cannot be empty",
                                  "Please enter a channel name to search", FALSE),
                   cl.cache, <<>>)
       ELSE IF cached.found
       THEN Returned(cached.data, cached.cache, <<>>)
       ELSE IF cl.searchService /\ cl.useSearchService
       THEN IF w.healthy
            THEN [viaService EXCEPT !.calls = <<"health">> \o @]
            ELSE [viaAPI EXCEPT !.calls = <<"health">> \o @]
       ELSE viaAPI

\* Variant: a bridge branch that found nothing falls back to the native search.
searchChannelsFallbackOnEmpty(cl, exhausted, t, query, w) ==
    LET cacheKey == SearchCacheKey(query)
        cached == getVideos(cl.cache, t, cacheKey)
        cl1 == [cl EXCEPT !.cache = cached.cache]
        viaService == searchChannelsViaService(cl1, exhausted, t, query, cacheKey, w)
        viaAPI == searchChannelsViaAPI(cl1, exhausted, t, query, cacheKey, w)
    IN IF Len(trim(query)) = 0
       THEN Thrown(createAPIError(400, "Search query cannot be empty",
                                  "Please enter a channel name to search", FALSE),
                   cl.cache, <<>>)
       ELSE IF cached.found
       THEN Returned(cached.data, cached.cache, <<>>)
       ELSE IF cl.searchService /\ cl.useSearchService
       THEN IF w.healthy
            THEN IF viaService.ok /\ viaService.value # <<>>
                 THEN [viaService EXCEPT !.calls = <<"health">> \o @]
                 ELSE [viaAPI EXCEPT !.calls = <<"health">> \o viaService.calls \o @]
            ELSE [viaAPI EXCEPT !.calls = <<"health">> \o @]
       ELSE viaAPI

\* searchChannels from its first await on: what follows the cache miss. The
\* cache is not read again, and is written when the last answer has arrived.
searchChannelsMissed(cl, exhausted, t, query, cacheKey, w) ==
    LET viaService == searchChannelsViaService(cl, exhausted, t, query, cacheKey, w)
        viaAPI == searchChannelsViaAPI(cl, exhausted, t, query, cacheKey, w)
    IN IF cl.searchService /\ cl.useSearchService
       THEN IF w.healthy
            THEN IF viaService.ok
                 THEN [viaService EXCEPT !.calls = <<"health">> \o @]
                 ELSE [viaAPI EXCEPT !.calls = <<"health">> \o viaService.calls \o @]
            ELSE [viaAPI EXCEPT !.calls = <<"health">> \o @]
       ELSE viaAPI

searchChannels(cl, exhausted, t, query, w) ==
    LET cacheKey == SearchCacheKey(query)
        cached == getVideos(cl.cache, t, cacheKey)
        cl1 == [cl EXCEPT !.cache = cached.cache]
    IN IF Len(trim(query)) = 0
       THEN Thrown(createAPIError(400, "Search query cannot be empty",
                                  "Please enter a channel name to search", FALSE),
                   cl.cache, <<>>)
       ELSE IF cached.found
       THEN Returned(cached.data, cached.cache, <<>>)
       ELSE searchChannelsMissed(cl1, exhausted, t, query, cacheKey, w)

\* Variant: the channel fetched is not stored in the cache.
getChannelInfoUncached(cl, exhausted, t, channelId, w) ==
    LET cached == getChannel(cl.cache, t, channelId)
        r == makeAPIRequest(cl.apiKey, exhausted, "channels", w, channelItems(<<channelId>>, w))
    IN IF Len(trim(channelId)) = 0
       THEN Thrown(createAPIError(400, "Channel ID cannot be empty",
                                  "Please provide a valid channel ID", FALSE),
                   cl.cache, <<>>)
       ELSE IF cached.found
       THEN Returned(<<cached.data>>, cached.cache, <<>>)
       ELSE IF ~r.ok
       THEN Thrown(handleError(r.err), cached.cache, <<"channels">>)
       ELSE IF validateResponse(r.data) # NoErr
       THEN Thrown(handleError(validateResponse(r.data)), cached.cache, <<"channels">>)
       ELSE IF Len(r.data.items) = 0
       THEN Thrown(handleError(createAPIError(404, "Channel not found",
                       "The channel you requested could not be found", FALSE)),
                   cached.cache, <<"channels">>)
       ELSE IF mapThrows(r.data)
       THEN Thrown(handleError(MappingError), cached.cache, <<"channels">>)
       ELSE Returned(<<r.data.items[1]>>, cached.cache, <<"channels">>)

\* Variant: the absence of the channel is stored in the cache.
getChannelInfoCachingAbsence(cl, exhausted, t, channelId, w) ==
    LET cached == getChannel(cl.cache, t, channelId)
        r == makeAPIRequest(cl.apiKey, exhausted, "channels", w, channelItems(<<channelId>>, w))
    IN IF Len(trim(channelId)) = 0
       THEN Thrown(createAPIError(400, "Channel ID cannot be empty",
                                  "Please provide a valid channel ID", FALSE),
                   cl.cache, <<>>)
       ELSE IF cached.found
       THEN Returned(<<cached.data>>, cached.cache, <<>>)
       ELSE IF ~r.ok
       THEN Thrown(handleError(r.err), cached.cache, <<"channels">>)
       ELSE IF validateResponse(r.data) # NoErr
       THEN Thrown(handleError(validateResponse(r.data)), cached.cache, <<"channels">>)
       ELSE IF Len(r.data.items) = 0
       THEN Thrown(handleError(createAPIError(404, "Channel not found",
                       "The channel you requested could not be found", FALSE)),
                   setChannel(cached.cache, t, channelId, NoChannel, Undefined),
                   <<"channels">>)
       ELSE IF mapThrows(r.data)
       THEN Thrown(handleError(MappingError), cached.cache, <<"channels">>)
       ELSE Returned(<<r.data.items[1]>>,
                     setChannel(cached.cache, t, channelId, r.data.items[1], Undefined),
                     <<"channels">>)

\* getChannelInfo from its await on: the request made after the cache miss
\* and what follows its answer.
\* Variant: a request that fails empties the channel cache.
getChannelInfoMissedClearing(cl, exhausted, t, channelId, w) ==
    LET r == makeAPIRequest(cl.apiKey, exhausted, "channels", w, channelItems(<<channelId>>, w))
    IN IF ~r.ok
       THEN Thrown(handleError(r.err), clearChannels(cl.cache), <<"channels">>)
       ELSE IF validateResponse(r.data) # NoErr
       THEN Thrown(handleError(validateResponse(r.data)), cl.cache, <<"channels">>)
       ELSE IF Len(r.data.items) = 0
       THEN Thrown(handleError(createAPIError(404, "Channel not found",
                       "The channel you requested could not be found", FALSE)),
                   cl.cache, <<"channels">>)
       ELSE IF mapThrows(r.data)
       THEN Thrown(handleError(MappingError), cl.cache, <<"channels">>)
       ELSE Returned(<<r.data.items[1]>>,
                     setChannel(cl.cache, t, channelId, r.data.items[1], Undefined),
                     <<"channels">>)

getChannelInfoMissed(cl, exhausted, t, channelId, w) ==
    LET r == makeAPIRequest(cl.apiKey, exhausted, "channels", w, channelItems(<<channelId>>, w))
    IN IF ~r.ok
       THEN Thrown(handleError(r.err), cl.cache, <<"channels">>)
       ELSE IF validateResponse(r.data) # NoErr
       THEN Thrown(handleError(validateResponse(r.data)), cl.cache, <<"channels">>)
       ELSE IF Len(r.data.items) = 0
       THEN Thrown(handleError(createAPIError(404, "Channel not found",
                       "The channel you requested could not be found", FALSE)),
                   cl.cache, <<"channels">>)
       ELSE IF mapThrows(r.data)
       THEN Thrown(handleError(MappingError), cl.cache, <<"channels">>)
       ELSE Returned(<<r.data.items[1]>>,
                     setChannel(cl.cache, t, channelId, r.data.items[1], Undefined),
                     <<"channels">>)

getChannelInfo(cl, exhausted, t, channelId, w) ==
    LET cached == getChannel(cl.cache, t, channelId)
    IN IF Len(trim(channelId)) = 0
       THEN Thrown(createAPIError(400, "Channel ID cannot be empty",
                                  "Please provide a valid channel ID", FALSE),
                   cl.cache, <<>>)
       ELSE IF cached.found
       THEN Returned(<<cached.data>>, cached.cache, <<>>)
       ELSE getChannelInfoMissed([cl EXCEPT !.cache = cached.cache], exhausted, t, channelId, w)

\* ------------------------------------------------------------------ state

VARIABLES
    keyManager,   \* the APIKeyManager object
    now,          \* Date.now()
    ret,          \* the last manager call and what it returned
    scen,         \* position of the caller in a fixed call sequence ("free": any call)
    client,       \* the YouTubeAPIClient object, its APICache included
    upstreamExhausted,  \* the keys whose quota is used up at the provider
    out           \* the last client call: arguments, the world's answers, outcome

vars == <<keyManager, now, ret, scen, client, upstreamExhausted, out>>
kmVars == <<keyManager, ret, scen>>
clVars == <<client, upstreamExhausted, out>>

Ret(op, result, prevIndex) ==
    [op |-> op, result |-> result, prevIndex |-> prevIndex, summary |-> NoSummary]

Free == [phase |-> "free", count |-> 0]

\* constructor of YouTubeAPIClient: one key; the bridge is kept only if it is
\* configured and useSearchService is set.
NewYouTubeAPIClient(apiKey, searchServiceConfig, useSearchService) ==
    [apiKey |-> apiKey,
     cache |-> NewAPICache,
     searchService |-> searchServiceConfig /\ useSearchService,
     useSearchService |-> useSearchService]

\* A world in which nothing is found and nothing fails.
World0 ==
    [healthy |-> FALSE, bridgeThrows |-> FALSE, hits |-> <<>>,
     owner |-> [v \in Videos |-> NoChannel], existing |-> Channels, reversed |-> FALSE,
     searchItems |-> <<>>, fail |-> {}, failure |-> NetworkFailure,
     malformed |-> {}, shape |-> "empty"]

Idle ==
    [op |-> "none", arg |-> <<>>, w |-> World0, time |-> 0, ok |-> TRUE, value |-> <<>>,
     err |-> NoErr, calls |-> <<>>]

Outcome(op, arg, w, t, r) ==
    [op |-> op, arg |-> arg, w |-> w, time |-> t, ok |-> r.ok, value |-> r.value,
     err |-> r.err, calls |-> r.calls]

\* ------------------------------------------------- key manager: operations

KMInit ==
    /\ \E pool \in Pools : keyManager = NewAPIKeyManager(pool)
    /\ now = StartNow
    /\ ret = Ret("new", Null, 0)
    /\ scen = Free
    /\ client = NewYouTubeAPIClient(keyManager.apiKeys[1], FALSE, TRUE)
    /\ upstreamExhausted = {}
    /\ out = Idle

CallGetCurrentKey ==
    LET r == getCurrentKey(keyManager, now)
    IN /\ keyManager' = r.m
       /\ ret' = Ret("getCurrentKey", r.ret, keyManager.currentKeyIndex)
       /\ UNCHANGED <<now, scen, clVars>>

CallRotateKey ==
    LET r == rotateKey(keyManager, now)
    IN /\ keyManager' = r.m
       /\ ret' = Ret("rotateKey", r.ret, keyManager.currentKeyIndex)
       /\ UNCHANGED <<now, scen, clVars>>

CallReportError(error, isQuotaError) ==
    /\ keyManager.keyStatuses[keyManager.apiKeys[keyManager.currentKeyIndex + 1]].consecutiveErrors
          < MaxErrors
    /\ keyManager' = reportError(keyManager, now, error, isQuotaError)
    /\ ret' = Ret("reportError", Null, keyManager.currentKeyIndex)
    /\ UNCHANGED <<now, scen, clVars>>

CallReportSuccess ==
    /\ keyManager' = reportSuccess(keyManager)
    /\ ret' = Ret("reportSuccess", Null, keyManager.currentKeyIndex)
    /\ UNCHANGED <<now, scen, clVars>>

CallResetQuotaStatus ==
    /\ keyManager' = resetQuotaStatus(keyManager)
    /\ ret' = Ret("resetQuotaStatus", Null, keyManager.currentKeyIndex)
    /\ UNCHANGED <<now, scen, clVars>>

CallGetStatusSummary ==
    LET r == getStatusSummary(keyManager, now)
    IN /\ keyManager' = r.m
       /\ ret' = [Ret("getStatusSummary", r.ret.currentKey, keyManager.currentKeyIndex)
                    EXCEPT !.summary = r.ret]
       /\ UNCHANGED <<now, scen, clVars>>

\* Time passes.
Tick ==
    /\ now + baseRetryDelay <= MaxNow
    /\ now' = now + baseRetryDelay
    /\ ret' = Ret("tick", Null, keyManager.currentKeyIndex)
    /\ UNCHANGED <<keyManager, scen, clVars>>

KMNext ==
    \/ CallGetCurrentKey
    \/ CallRotateKey
    \/ \E isQuotaError \in BOOLEAN : CallReportError(ErrorMessage(isQuotaError), isQuotaError)
    \/ CallReportSuccess
    \/ CallResetQuotaStatus
    \/ CallGetStatusSummary
    \/ Tick

SpecKM == KMInit /\ [][KMNext]_vars

\* ------------------------------------------------ key manager: construction
\* A caller constructs the manager with some list of keys, the empty list
\* included, and uses the manager it got.

ConstructInit ==
    /\ keyManager = NoManager
    /\ now = StartNow
    /\ ret = Ret("none", Null, 0)
    /\ scen = [phase |-> "construct", called |-> FALSE, ok |-> FALSE, apiKeys |-> <<>>]
    /\ client = NewYouTubeAPIClient("K1", FALSE, TRUE)
    /\ upstreamExhausted = {}
    /\ out = Idle

Construct(apiKeys) ==
    LET r == APIKeyManagerConstructor(apiKeys)
    IN /\ ~scen.called
       /\ keyManager' = r.m
       /\ ret' = Ret("new", IF r.ok THEN Null ELSE r.error, 0)
       /\ scen' = [phase |-> "construct", called |-> TRUE, ok |-> r.ok, apiKeys |-> apiKeys]
       /\ UNCHANGED <<now, clVars>>

ConstructNext ==
    \/ \E apiKeys \in Pools \cup {<<>>} : Construct(apiKeys)
    \/ /\ scen.ok
       /\ KMNext

SpecConstruct == ConstructInit /\ [][ConstructNext]_vars

\* -------------------------------- key manager: quota failures on every key
\* A caller that reports a quota error on the current key and rotates, once per
\* key of a list of distinct keys, then queries the manager and resets it.

DistinctPools == {p \in Pools : Cardinality(Range(p)) = Len(p)}

CoverageInit ==
    /\ \E pool \in DistinctPools, i \in 0..2 :
          /\ i < Len(pool)
          /\ keyManager = [NewAPIKeyManager(pool) EXCEPT !.currentKeyIndex = i]
    /\ now = StartNow
    /\ ret = Ret("new", Null, 0)
    /\ scen = [phase |-> "report", count |-> 0]
    /\ client = NewYouTubeAPIClient(keyManager.apiKeys[1], FALSE, TRUE)
    /\ upstreamExhausted = {}
    /\ out = Idle

CoverageReportQuota ==
    /\ scen.phase = "report"
    /\ keyManager' = reportError(keyManager, now, ErrorMessage(TRUE), TRUE)
    /\ ret' = Ret("reportError", Null, keyManager.currentKeyIndex)
    /\ scen' = [scen EXCEPT !.phase = "rotate"]
    /\ UNCHANGED <<now, clVars>>

CoverageRotate ==
    /\ scen.phase = "rotate"
    /\ LET r == rotateKey(keyManager, now)
       IN /\ keyManager' = r.m
          /\ ret' = Ret("rotateKey", r.ret, keyManager.currentKeyIndex)
    /\ scen' = [phase |-> IF scen.count + 1 = Len(keyManager.apiKeys)
                          THEN "exhausted" ELSE "report",
                count |-> scen.count + 1]
    /\ UNCHANGED <<now, clVars>>

CoverageGetCurrentKey ==
    /\ scen.phase \in {"exhausted", "reset"}
    /\ LET r == getCurrentKey(keyManager, now)
       IN /\ keyManager' = r.m
          /\ ret' = Ret("getCurrentKey", r.ret, keyManager.currentKeyIndex)
    /\ UNCHANGED <<now, scen, clVars>>

CoverageRotateAgain ==
    /\ scen.phase = "exhausted"
    /\ LET r == rotateKey(keyManager, now)
       IN /\ keyManager' = r.m
          /\ ret' = Ret("rotateKey", r.ret, keyManager.currentKeyIndex)
    /\ UNCHANGED <<now, scen, clVars>>

CoverageReset ==
    /\ scen.phase = "exhausted"
    /\ keyManager' = resetQuotaStatus(keyManager)
    /\ ret' = Ret("resetQuotaStatus", Null, keyManager.currentKeyIndex)
    /\ scen' = [scen EXCEPT !.phase = "reset"]
    /\ UNCHANGED <<now, clVars>>

\* Time passes: a few minutes, or a whole day once.
CoverageTick ==
    /\ \E dt \in {baseRetryDelay, DayLen} :
          /\ now <= MaxNow
          /\ dt = baseRetryDelay => now + dt <= MaxNow
          /\ now' = now + dt
    /\ UNCHANGED <<keyManager, ret, scen, clVars>>

CoverageNext ==
    \/ CoverageReportQuota
    \/ CoverageRotate
    \/ CoverageGetCurrentKey
    \/ CoverageRotateAgain
    \/ CoverageReset
    \/ CoverageTick

SpecCoverage == CoverageInit /\ [][CoverageNext]_vars

\* --------------------------------------------- key manager: round robin
\* A caller that rotates again and again and reports no error; between two
\* rotations it may make any of the other calls, and time may pass.

FairInit ==
    /\ \E pool \in Pools : keyManager = NewAPIKeyManager(pool)
    /\ now = StartNow
    /\ ret = Ret("new", Null, 0)
    /\ scen = [phase |-> "fair", count |-> 0]
    /\ client = NewYouTubeAPIClient(keyManager.apiKeys[1], FALSE, TRUE)
    /\ upstreamExhausted = {}
    /\ out = Idle

\* rotateKey(), counted.
FairRotate ==
    /\ scen.count < MaxRotations
    /\ LET r == rotateKey(keyManager, now)
       IN /\ keyManager' = r.m
          /\ ret' = Ret("rotateKey", r.ret, keyManager.currentKeyIndex)
    /\ scen' = [scen EXCEPT !.count = @ + 1]
    /\ UNCHANGED <<now, clVars>>

FairNext ==
    \/ FairRotate
    \/ CallGetCurrentKey
    \/ CallReportSuccess
    \/ CallResetQuotaStatus
    \/ CallGetStatusSummary
    \/ Tick

SpecFair == FairInit /\ [][FairNext]_vars

\* ------------------------------------------------ key manager: backoff
\* A caller that reports transient errors and successes against the current
\* key and keeps, for each key, the number of errors since the last success.

BackoffPools == {<<"K1">>, <<"K1", "K2">>}

BackoffInit ==
    /\ \E pool \in BackoffPools : keyManager = NewAPIKeyManager(pool)
    /\ now = StartNow
    /\ ret = Ret("new", Null, 0)
    /\ scen = [phase |-> "backoff",
               count |-> [k \in Range(keyManager.apiKeys) |-> 0],
               afterSuccess |-> [k \in Range(keyManager.apiKeys) |-> FALSE]]
    /\ client = NewYouTubeAPIClient(keyManager.apiKeys[1], FALSE, TRUE)
    /\ upstreamExhausted = {}
    /\ out = Idle

BackoffReportError ==
    LET currentKey == keyManager.apiKeys[keyManager.currentKeyIndex + 1]
    IN /\ scen.count[currentKey] < MaxBackoffErrors
       /\ keyManager' = reportError(keyManager, now, ErrorMessage(FALSE), FALSE)
       /\ ret' = Ret("reportError", Null, keyManager.currentKeyIndex)
       /\ scen' = [scen EXCEPT !.count[currentKey] = @ + 1]
       /\ UNCHANGED <<now, clVars>>

BackoffReportSuccess ==
    LET currentKey == keyManager.apiKeys[keyManager.currentKeyIndex + 1]
    IN /\ keyManager' = reportSuccess(keyManager)
       /\ ret' = Ret("reportSuccess", Null, keyManager.currentKeyIndex)
       /\ scen' = [scen EXCEPT !.count[currentKey] = 0, !.afterSuccess[currentKey] = TRUE]
       /\ UNCHANGED <<now, clVars>>

\* Time passes: the longest backoff delay at a time.
BackoffTick ==
    /\ now + maxRetryDelay <= MaxNow + 2 * maxRetryDelay
    /\ now' = now + maxRetryDelay
    /\ ret' = Ret("tick", Null, keyManager.currentKeyIndex)
    /\ UNCHANGED <<keyManager, scen, clVars>>

BackoffNext ==
    \/ BackoffReportError
    \/ BackoffReportSuccess
    \/ CallGetCurrentKey
    \/ CallRotateKey
    \/ BackoffTick

SpecBackoff == BackoffInit /\ [][BackoffNext]_vars

\* ------------------------------------------------------------- the cache
\* A caller of the APICache object of a client: sets, gets and removals on
\* both mappings, while time passes. The caller keeps, for each slot, what it
\* last set there and when (unless it removed the entry since), and its last
\* get or removal until it does something else.

ChannelValues == {"x", "y"}
VideoLists == {<<>>, <<"vA">>}
\* customDuration of a set: absent, or five minutes.
Durations == {Undefined, baseRetryDelay}

ChannelSlots == {<<"channel", Ch1>>, <<"channel", Ch2>>}
VideoSlots == {<<"videos", Ch1>>}
Slots == ChannelSlots \cup VideoSlots

NotSet == [set |-> FALSE, value |-> <<>>, time |-> 0, duration |-> Undefined]
NoGet == [op |-> "none", slot |-> <<>>, found |-> FALSE, data |-> <<>>]
Setting(slot) == [op |-> "set", slot |-> slot, found |-> FALSE, data |-> <<>>]

CacheInit ==
    /\ keyManager = NewAPIKeyManager(<<"K1">>)
    /\ now = StartNow
    /\ ret = Ret("new", Null, 0)
    /\ scen = [phase |-> "cache", lastSet |-> [sl \in Slots |-> NotSet]]
    /\ client = NewYouTubeAPIClient("K1", FALSE, TRUE)
    /\ upstreamExhausted = {}
    /\ out = NoGet

CacheSetChannel(slot, channel, customDuration) ==
    /\ client' = [client EXCEPT
                    !.cache = setChannel(@, now, slot[2], channel, customDuration)]
    /\ scen' = [scen EXCEPT !.lastSet[slot] =
                  [set |-> TRUE, value |-> channel, time |-> now, duration |-> customDuration]]
    /\ out' = Setting(slot)
    /\ UNCHANGED <<keyManager, ret, now, upstreamExhausted>>

CacheSetVideos(slot, videos, customDuration) ==
    /\ client' = [client EXCEPT
                    !.cache = setVideos(@, now, slot[2], videos, customDuration)]
    /\ scen' = [scen EXCEPT !.lastSet[slot] =
                  [set |-> TRUE, value |-> videos, time |-> now, duration |-> customDuration]]
    /\ out' = Setting(slot)
    /\ UNCHANGED <<keyManager, ret, now, upstreamExhausted>>

CacheGetChannel(slot) ==
    LET r == getChannel(client.cache, now, slot[2])
    IN /\ client' = [client EXCEPT !.cache = r.cache]
       /\ out' = [op |-> "get", slot |-> slot, found |-> r.found, data |-> r.data]
       /\ UNCHANGED <<kmVars, now, upstreamExhausted>>

CacheGetVideos(slot) ==
    LET r == getVideos(client.cache, now, slot[2])
    IN /\ client' = [client EXCEPT !.cache = r.cache]
       /\ out' = [op |-> "get", slot |-> slot, found |-> r.found, data |-> r.data]
       /\ UNCHANGED <<kmVars, now, upstreamExhausted>>

\* A removal: the new cache, the slots whose entries the caller removed, and
\* the call made.
CacheRemoval(c2, removed, call) ==
    /\ client' = [client EXCEPT !.cache = c2]
    /\ scen' = [scen EXCEPT !.lastSet =
                  [sl \in Slots |-> IF sl \in removed THEN NotSet ELSE @[sl]]]
    /\ out' = call
    /\ UNCHANGED <<keyManager, ret, now, upstreamExhausted>>

\* An invalidation, with the entry the key had before it (found: it had one).
Invalidation(map, slot) ==
    [op |-> "invalidate", slot |-> slot, found |-> slot[2] \in DOMAIN map,
     data |-> IF slot[2] \in DOMAIN map THEN map[slot[2]] ELSE <<>>]

Clearing(which) == [op |-> "clear", slot |-> <<which>>, found |-> FALSE, data |-> <<>>]

CacheInvalidateChannel(slot) ==
    CacheRemoval(invalidateChannel(client.cache, slot[2]), {slot},
                 Invalidation(client.cache.channelCache, slot))

CacheInvalidateVideos(slot) ==
    CacheRemoval(invalidateVideos(client.cache, slot[2]), {slot},
                 Invalidation(client.cache.videoCache, slot))

CacheClearChannels ==
    CacheRemoval(clearChannels(client.cache), ChannelSlots, Clearing("channel"))

CacheClearVideos == CacheRemoval(clearVideos(client.cache), VideoSlots, Clearing("videos"))

CacheClearAll == CacheRemoval(clearAll(client.cache), Slots, Clearing("all"))

\* Time passes: five minutes at a time, then the default cache duration.
CacheTick ==
    /\ \/ /\ now + baseRetryDelay <= MaxNow
          /\ now' = now + baseRetryDelay
       \/ /\ now + baseRetryDelay > MaxNow
          /\ now + defaultCacheDuration <= MaxNow + defaultCacheDuration
          /\ now' = now + defaultCacheDuration
    /\ out' = NoGet
    /\ UNCHANGED <<kmVars, client, upstreamExhausted>>

CacheNext ==
    \/ \E slot \in ChannelSlots, channel \in ChannelValues, d \in Durations :
          CacheSetChannel(slot, channel, d)
    \/ \E slot \in VideoSlots, videos \in VideoLists, d \in Durations :
          CacheSetVideos(slot, videos, d)
    \/ \E slot \in ChannelSlots : CacheGetChannel(slot)
    \/ \E slot \in VideoSlots : CacheGetVideos(slot)
    \/ \E slot \in ChannelSlots : CacheInvalidateChannel(slot)
    \/ \E slot \in VideoSlots : CacheInvalidateVideos(slot)
    \/ CacheClearChannels
    \/ CacheClearVideos
    \/ CacheClearAll
    \/ CacheTick

SpecCache == CacheInit /\ [][CacheNext]_vars

\* ------------------------------------------------- the cache: durations
\* A caller that sets entries with any duration the signature of setChannel
\* and setVideos takes (customDuration?: number): absent, positive, zero,
\* negative.

AnyDurations == {Undefined, baseRetryDelay, 0, 0 - baseRetryDelay}

TtlNext ==
    \/ \E slot \in ChannelSlots, d \in AnyDurations : CacheSetChannel(slot, "x", d)
    \/ \E slot \in VideoSlots, d \in AnyDurations : CacheSetVideos(slot, <<"vA">>, d)
    \/ \E slot \in ChannelSlots : CacheGetChannel(slot)
    \/ \E slot \in VideoSlots : CacheGetVideos(slot)
    \/ CacheTick

SpecTtl == CacheInit /\ [][TtlNext]_vars

\* ------------------------------------------------- client: entity lookups
\* The application holds a key manager and a client built with the first key of
\* the same list; keys run out of quota at the provider while lookups are made.

\* The channel ids a caller passes: two ids, the empty string, a blank string.
ChannelIdArgs == Channels \cup {<<>>, <<" ">>}

\* What the provider can answer to a lookup: any set of known channels, or a failure.
EntityWorlds ==
    {[World0 EXCEPT !.existing = ex] : ex \in SUBSET Channels}
        \cup {[World0 EXCEPT !.fail = {"channels"}]}

EntityInit ==
    /\ \E pool \in DistinctPools :
          /\ keyManager = NewAPIKeyManager(pool)
          /\ client = NewYouTubeAPIClient(pool[1], FALSE, TRUE)
    /\ now = StartNow
    /\ ret = Ret("new", Null, 0)
    /\ scen = Free
    /\ upstreamExhausted = {}
    /\ out = Idle

CallGetChannelInfo(channelId, w) ==
    LET r == getChannelInfo(client, upstreamExhausted, now, channelId, w)
    IN /\ client' = [client EXCEPT !.cache = r.cache]
       /\ out' = Outcome("getChannelInfo", channelId, w, now, r)
       /\ UNCHANGED <<kmVars, now, upstreamExhausted>>

\* The provider has served the last unit of a key's daily quota.
QuotaUsedUp(k) ==
    /\ k \in Range(keyManager.apiKeys) \ upstreamExhausted
    /\ upstreamExhausted' = upstreamExhausted \cup {k}
    /\ out' = Idle
    /\ UNCHANGED <<kmVars, now, client>>

EntityTick ==
    /\ now + defaultCacheDuration \div 2 <= MaxNow + defaultCacheDuration
    /\ now' = now + defaultCacheDuration \div 2
    /\ UNCHANGED <<kmVars, clVars>>

EntityNext ==
    \/ \E channelId \in ChannelIdArgs, w \in EntityWorlds : CallGetChannelInfo(channelId, w)
    \/ \E k \in Keys : QuotaUsedUp(k)
    \/ EntityTick

SpecEntity == EntityInit /\ [][EntityNext]_vars

\* ------------------------------------------------------- client: searches

Hit(videoId, confidence) == [videoId |-> videoId, confidence |-> confidence]

\* The queries a caller passes: empty, blank, and three spellings of one query.
Queries == {<<>>, <<" ">>, <<"a", "b">>, <<"A", "B">>, <<" ", "a", "b", " ">>}

NoOwner == [v \in Videos |-> NoChannel]
OwnerAB == [v \in Videos |-> IF v = "vA" THEN Ch1 ELSE Ch2]

Places == {"bridge.videos", "bridge.channels", "native.search", "native.channels"}

AllSearchWorlds ==
    [healthy : BOOLEAN, bridgeThrows : BOOLEAN,
     hits : {<<>>, <<Hit("vA", 9)>>},
     owner : {NoOwner, OwnerAB},
     existing : {Channels, {}},
     reversed : {FALSE},
     searchItems : {<<>>, <<Ch2, Ch1>>},
     fail : {f \in SUBSET Places : Cardinality(f) <= 2},
     failure : {NetworkFailure, QuotaFailure},
     malformed : {{}}, shape : {"empty"}]

\* One world for each way a search can run: a field the run never reads keeps
\* its value of World0.
BridgeReachesVideos(w) == w.healthy /\ ~w.bridgeThrows /\ w.hits # <<>>
BridgeReachesChannels(w) ==
    BridgeReachesVideos(w) /\ "bridge.videos" \notin w.fail /\ w.owner # NoOwner
BridgeCompletes(w) ==
    /\ w.healthy /\ ~w.bridgeThrows
    /\ "bridge.videos" \notin w.fail
    /\ "bridge.channels" \notin w.fail
NativeReachesChannels(w) ==
    ~BridgeCompletes(w) /\ "native.search" \notin w.fail /\ w.searchItems # <<>>

Canonical(w) ==
    /\ ~w.healthy => ~w.bridgeThrows /\ w.hits = <<>>
    /\ w.bridgeThrows => w.hits = <<>>
    /\ ~BridgeReachesVideos(w) => w.owner = NoOwner /\ "bridge.videos" \notin w.fail
    /\ ~BridgeReachesChannels(w) => "bridge.channels" \notin w.fail
    /\ BridgeCompletes(w) =>
          /\ w.searchItems = <<>>
          /\ "native.search" \notin w.fail
    /\ "native.search" \in w.fail => w.searchItems = <<>>
    /\ ~NativeReachesChannels(w) => "native.channels" \notin w.fail
    /\ ~(BridgeReachesChannels(w) \/ NativeReachesChannels(w)) => w.existing = Channels
    /\ w.fail = {} => w.failure = NetworkFailure

SearchWorlds == {w \in AllSearchWorlds : Canonical(w)}

\* The worlds a call can meet: none is read when the query is rejected or the
\* cache answers, and the bridge's fields are read only by a client that has one.
WorldsFor(cl, t, query) ==
    IF Len(trim(query)) = 0 \/ getVideos(cl.cache, t, SearchCacheKey(query)).found
    THEN {World0}
    ELSE IF cl.searchService /\ cl.useSearchService
    THEN SearchWorlds
    ELSE {w \in SearchWorlds : ~w.healthy}

SearchInit ==
    /\ keyManager = NewAPIKeyManager(<<"K1", "K2">>)
    /\ \E conf \in {<<TRUE, TRUE>>, <<FALSE, TRUE>>, <<TRUE, FALSE>>} :
          client = NewYouTubeAPIClient("K1", conf[1], conf[2])
    /\ now = StartNow
    /\ ret = Ret("new", Null, 0)
    /\ scen = Free
    /\ upstreamExhausted = {}
    /\ out = Idle

CallSearchChannels(query, w) ==
    LET r == searchChannels(client, upstreamExhausted, now, query, w)
    IN /\ client' = [client EXCEPT !.cache = r.cache]
       /\ out' = Outcome("search", query, w, now, r)
       /\ UNCHANGED <<kmVars, now, upstreamExhausted>>

SearchTick ==
    /\ now + searchCacheDuration \div 2 <= MaxNow + searchCacheDuration
    /\ now' = now + searchCacheDuration \div 2
    /\ UNCHANGED <<kmVars, clVars>>

SearchNext ==
    \/ \E query \in Queries :
          \E w \in WorldsFor(client, now, query) : CallSearchChannels(query, w)
    \/ SearchTick

SpecSearch == SearchInit /\ [][SearchNext]_vars

\* --------------------------------------------- client: one bridged search
\* A fresh client with a healthy bridge makes one search; the bridge's hits, the
\* owners of the videos and the provider's listing order are the inputs.

Confidences == {3, 5, 9}

HitLists ==
    UNION {[1..n -> {Hit(v, c) : v \in Videos, c \in Confidences}] : n \in 1..MaxHits}

RankWorlds ==
    {[World0 EXCEPT !.healthy = TRUE, !.hits = h, !.owner = o, !.reversed = r] :
        h \in HitLists, o \in [Videos -> Channels \cup {NoChannel}], r \in BOOLEAN}

RankInit ==
    /\ keyManager = NewAPIKeyManager(<<"K1", "K2">>)
    /\ client = NewYouTubeAPIClient("K1", TRUE, TRUE)
    /\ now = StartNow
    /\ ret = Ret("new", Null, 0)
    /\ scen = Free
    /\ upstreamExhausted = {}
    /\ out = Idle

RankNext ==
    \E w \in RankWorlds :
        /\ out.op = "none"
        /\ CallSearchChannels(<<"a", "b">>, w)

SpecRank == RankInit /\ [][RankNext]_vars

\* ------------------------------------------------ client: arguments
\* A caller that passes any argument, well formed or not, to a search or to
\* a channel lookup, while time passes.

\* Queries: empty, blank, of two letters, and of one letter.
InputQueries == {<<>>, <<" ">>, <<"a", "b">>, <<"a">>, <<" ", "a", " ">>}

\* What a search can meet here: nothing found, channels found by the provider's
\* search, a failing provider, and a healthy bridge with a hit.
InputWorlds ==
    {World0,
     [World0 EXCEPT !.searchItems = <<Ch2, Ch1>>],
     [World0 EXCEPT !.fail = {"native.search"}],
     [World0 EXCEPT !.healthy = TRUE, !.hits = <<Hit("vA", 9)>>, !.owner = OwnerAB]}

\* What a channel lookup can meet here: a provider that knows every channel,
\* or none.
InputEntityWorlds == {World0, [World0 EXCEPT !.existing = {}]}

InputInit ==
    /\ keyManager = NewAPIKeyManager(<<"K1", "K2">>)
    /\ \E conf \in {<<TRUE, TRUE>>, <<FALSE, TRUE>>} :
          client = NewYouTubeAPIClient("K1", conf[1], conf[2])
    /\ now = StartNow
    /\ ret = Ret("new", Null, 0)
    /\ scen = Free
    /\ upstreamExhausted = {}
    /\ out = Idle

InputNext ==
    \/ \E query \in InputQueries, w \in InputWorlds : CallSearchChannels(query, w)
    \/ \E channelId \in ChannelIdArgs, w \in InputEntityWorlds :
          CallGetChannelInfo(channelId, w)
    \/ SearchTick

SpecInput == InputInit /\ [][InputNext]_vars

\* ------------------------------------------------ client: video details
\* A fresh client is asked once for the details of a list of video ids; the
\* length and the order of the list and the provider's answers are the inputs.
\* Video ids are numbers here.

\* Lists of n ids: ascending, descending, and three ids in turn.
IdLists(n) ==
    {[i \in 1..n |-> i], [i \in 1..n |-> n + 1 - i], [i \in 1..n |-> ((i - 1) % 3) + 1]}

\* The provider has every video, or lacks every seventh; its calls succeed or fail.
BatchWorlds ==
    {[World0 EXCEPT !.owner = [v \in 1..MaxIds |-> IF lacks /\ v % 7 = 0 THEN NoChannel ELSE Ch1],
                    !.fail = f] :
        lacks \in BOOLEAN, f \in {{}, {"videos"}}}

\* The id lists of the requests made: the batches, as far as the loop got.
requestedBatches(videoIds, calls) == SubSeq(Batches(videoIds), 1, Len(calls))

BatchInit ==
    /\ keyManager = NewAPIKeyManager(<<"K1", "K2">>)
    /\ client = NewYouTubeAPIClient("K1", FALSE, TRUE)
    /\ now = StartNow
    /\ ret = Ret("new", Null, 0)
    /\ scen = [phase |-> "batch", sent |-> <<>>]
    /\ upstreamExhausted = {}
    /\ out = Idle

CallGetVideoDetails(videoIds, w) ==
    LET r == getVideoDetails(client, upstreamExhausted, videoIds, w, "videos")
    IN /\ client' = [client EXCEPT !.cache = r.cache]
       /\ out' = Outcome("getVideoDetails", videoIds, w, now, r)
       /\ scen' = [scen EXCEPT !.sent = requestedBatches(videoIds, r.calls)]
       /\ UNCHANGED <<keyManager, ret, now, upstreamExhausted>>

BatchNext ==
    \E n \in 0..MaxIds : \E videoIds \in IdLists(n), w \in BatchWorlds :
        /\ out.op = "none"
        /\ CallGetVideoDetails(videoIds, w)

SpecBatch == BatchInit /\ [][BatchNext]_vars

\* ------------------------------------ client: the requests of a bridged search
\* A fresh client with a healthy bridge makes one search; the caller's record
\* keeps the ids each request to the provider was made for.

RefHitLists == UNION {[1..n -> {Hit(v, 5) : v \in Videos}] : n \in 1..MaxHits}

RefWorlds ==
    {[World0 EXCEPT !.healthy = TRUE, !.hits = h, !.owner = o, !.reversed = r] :
        h \in RefHitLists, o \in [Videos -> Channels \cup {NoChannel}], r \in BOOLEAN}

\* The "id" parameter of the /videos requests of the bridge path, one list per
\* request made.
sentVideoIds(w, calls) ==
    LET isVideos(c) == c = "bridge.videos"
    IN requestedBatches(extractVideoIds(w.hits), SelectSeq(calls, isVideos))

\* The ids getChannelsByIds was called with in the bridge path, if it was called.
sentChannelIds(cl, exhausted, w, calls) ==
    IF Includes(calls, "bridge.channels")
    THEN uniqueChannelIds(
            getVideoDetails(cl, exhausted, extractVideoIds(w.hits), w, "bridge.videos").value)
    ELSE <<>>

RefsInit ==
    /\ keyManager = NewAPIKeyManager(<<"K1", "K2">>)
    /\ client = NewYouTubeAPIClient("K1", TRUE, TRUE)
    /\ now = StartNow
    /\ ret = Ret("new", Null, 0)
    /\ scen = [phase |-> "refs", videoIds |-> <<>>, channelIds |-> <<>>]
    /\ upstreamExhausted = {}
    /\ out = Idle

CallBridgedSearch(query, w) ==
    LET r == searchChannels(client, upstreamExhausted, now, query, w)
    IN /\ out.op = "none"
       /\ client' = [client EXCEPT !.cache = r.cache]
       /\ out' = Outcome("search", query, w, now, r)
       /\ scen' = [scen EXCEPT !.videoIds = sentVideoIds(w, r.calls),
                               !.channelIds = sentChannelIds(client, upstreamExhausted, w, r.calls)]
       /\ UNCHANGED <<keyManager, ret, now, upstreamExhausted>>

RefsNext == \E w \in RefWorlds : CallBridgedSearch(<<"a", "b">>, w)

SpecRefs == RefsInit /\ [][RefsNext]_vars

\* ------------------------------------------------------ client: failures
\* A client with a bridge makes searches, channel lookups and video lookups
\* while one place of call, or a bridge call and a native call, goes wrong:
\* the transport fails with some HTTP status or with no response, or the
\* answer has the wrong shape.

Statuses == {0, 400, 401, 403, 404, 429, 500, 502, 503}

\* What axios throws: one error per status, and the provider's quota error.
FailureKinds == {AxiosError(st, "requestFailed") : st \in Statuses} \cup {QuotaFailure}

\* The base world with nothing wrong, with one of the places failing, or with
\* one of the places answering a body of the wrong shape.
TroubledAt(base, places) ==
    {base}
        \cup {[base EXCEPT !.fail = {p}, !.failure = f] : p \in places, f \in FailureKinds}
        \cup {[base EXCEPT !.malformed = {p}, !.shape = sh] : p \in places, sh \in Shapes}

\* The provider's search finds two channels; the bridge is down.
NativeWorld == [World0 EXCEPT !.searchItems = <<Ch2, Ch1>>]
\* The bridge is up and has one hit, whose video the provider knows.
BridgeWorld ==
    [NativeWorld EXCEPT !.healthy = TRUE, !.hits = <<Hit("vA", 9)>>, !.owner = OwnerAB]

FailureSearchWorlds ==
    TroubledAt(NativeWorld, {"native.search", "native.channels"})
        \cup TroubledAt(BridgeWorld, {"bridge.videos", "bridge.channels"})
        \cup {[BridgeWorld EXCEPT !.fail = {"bridge.videos", np}, !.failure = f] :
                 np \in {"native.search", "native.channels"}, f \in FailureKinds}
        \cup {[BridgeWorld EXCEPT !.malformed = {"bridge.channels", np}, !.shape = sh] :
                 np \in {"native.search", "native.channels"}, sh \in Shapes}

FailureEntityWorlds ==
    TroubledAt(World0, {"channels"}) \cup TroubledAt([World0 EXCEPT !.existing = {}], {"channels"})

FailureVideoWorlds == TroubledAt([World0 EXCEPT !.owner = OwnerAB], {"videos"})

FailureInit ==
    /\ keyManager = NewAPIKeyManager(<<"K1", "K2">>)
    /\ client = NewYouTubeAPIClient("K1", TRUE, TRUE)
    /\ now = StartNow
    /\ ret = Ret("new", Null, 0)
    /\ scen = [phase |-> "failure", sent |-> <<>>]
    /\ upstreamExhausted = {}
    /\ out = Idle

FailureNext ==
    \/ \E query \in {<<>>, <<"a", "b">>}, w \in FailureSearchWorlds :
          CallSearchChannels(query, w)
    \/ \E channelId \in {<<>>, Ch1}, w \in FailureEntityWorlds :
          CallGetChannelInfo(channelId, w)
    \/ \E videoIds \in {<<>>, <<"vA", "vB">>}, w \in FailureVideoWorlds :
          CallGetVideoDetails(videoIds, w)

SpecFailure == FailureInit /\ [][FailureNext]_vars

\* ------------------------------------------- client: failures and the cache
\* A client with a bridge makes searches and channel lookups, some of which
\* succeed and fill the cache; time passes, so that entries expire; other calls
\* fail in one of the ways a call can fail.

\* Searches: the native and the bridged search go well; the provider's search
\* fails on quota; a channel of the native search cannot be mapped; the bridged
\* search and the native search both fail on the network.
StaleSearchWorlds ==
    {NativeWorld, BridgeWorld,
     [NativeWorld EXCEPT !.fail = {"native.search"}, !.failure = QuotaFailure],
     [NativeWorld EXCEPT !.malformed = {"native.channels"}, !.shape = "badItem"],
     [BridgeWorld EXCEPT !.fail = {"bridge.videos", "native.search"}]}

\* Lookups: the channel is found; it is not; the call fails on quota or on the
\* network; the answer has no body.
StaleEntityWorlds ==
    {World0, [World0 EXCEPT !.existing = {}],
     [World0 EXCEPT !.fail = {"channels"}, !.failure = QuotaFailure],
     [World0 EXCEPT !.fail = {"channels"}],
     [World0 EXCEPT !.malformed = {"channels"}]}

StaleInit ==
    /\ keyManager = NewAPIKeyManager(<<"K1", "K2">>)
    /\ client = NewYouTubeAPIClient("K1", TRUE, TRUE)
    /\ now = StartNow
    /\ ret = Ret("new", Null, 0)
    /\ scen = [phase |-> "stale"]
    /\ upstreamExhausted = {}
    /\ out = Idle

\* Time passes: the life of a cached channel at a time.
StaleTick ==
    /\ now + defaultCacheDuration <= MaxNow + searchCacheDuration + defaultCacheDuration
    /\ now' = now + defaultCacheDuration
    /\ out' = Idle
    /\ UNCHANGED <<kmVars, client, upstreamExhausted>>

StaleNext ==
    \/ \E query \in {<<>>, <<"a", "b">>}, w \in StaleSearchWorlds :
          CallSearchChannels(query, w)
    \/ \E channelId \in {<<>>, Ch1, Ch2}, w \in StaleEntityWorlds :
          CallGetChannelInfo(channelId, w)
    \/ StaleTick

SpecStale == StaleInit /\ [][StaleNext]_vars

\* ------------------------------------------------ client: requests in flight
\* Two callers use one client. A call runs to its first await when it starts
\* (argument check, cache lookup, first request sent); each answer that arrives
\* runs it to its next await, and the last answer runs it to its end, where the
\* cache is written. The steps of the two calls interleave in any order.

Requests == {1, 2}
Other(r) == 3 - r

\* A call not started yet. Of a call: pc is "idle", "flight" or "done"; sent
\* counts the requests it has sent; overlapped tells that the other call was
\* in flight for the same key when it started; order is its rank of completion
\* and end the time of it.
IdleRequest ==
    [pc |-> "idle", op |-> "none", arg |-> <<>>, w |-> World0, sent |-> 0,
     overlapped |-> FALSE, ok |-> TRUE, value |-> <<>>, calls |-> <<>>, order |-> 0,
     end |-> 0]

\* The cache key of a call: the id as it is, or the normalised query.
RequestKey(op, arg) == IF op = "search" THEN SearchCacheKey(arg) ELSE arg

\* The cache lookup a call starts with.
FirstLookup(op, cache, t, arg) ==
    IF op = "search" THEN getVideos(cache, t, SearchCacheKey(arg)) ELSE getChannel(cache, t, arg)

\* A call from its first await on.
Missed(op, cl, exhausted, t, arg, w) ==
    IF op = "search"
    THEN searchChannelsMissed(cl, exhausted, t, arg, SearchCacheKey(arg), w)
    ELSE getChannelInfoMissed(cl, exhausted, t, arg, w)

ConcurrentQueries == {<<"a", "b">>, <<"A", "B">>}

\* The answers a search can meet: channels found by the provider's search,
\* listed in either order, a failing search, a bridge with a hit.
ConcurrentSearchWorlds ==
    {NativeWorld, [NativeWorld EXCEPT !.reversed = TRUE],
     [NativeWorld EXCEPT !.fail = {"native.search"}], BridgeWorld}

\* The answers a lookup can meet: the channel, no record, a failure.
ConcurrentEntityWorlds ==
    {World0, [World0 EXCEPT !.existing = {}], [World0 EXCEPT !.fail = {"channels"}]}

ConcurrentInit ==
    /\ keyManager = NewAPIKeyManager(<<"K1", "K2">>)
    /\ client = NewYouTubeAPIClient("K1", TRUE, TRUE)
    /\ now = StartNow
    /\ ret = Ret("new", Null, 0)
    /\ scen = [phase |-> "concurrent", reqs |-> [r \in Requests |-> IdleRequest],
               finished |-> 0]
    /\ upstreamExhausted = {}
    /\ out = Idle

\* The call is over: its outcome goes to its caller.
Completed(r, op, arg, w, res, sent, overlapped) ==
    /\ client' = [client EXCEPT !.cache = res.cache]
    /\ out' = Outcome(op, arg, w, now, res)
    /\ scen' = [scen EXCEPT
                   !.finished = @ + 1,
                   !.reqs[r] = [pc |-> "done", op |-> op, arg |-> arg, w |-> w, sent |-> sent,
                                overlapped |-> overlapped, ok |-> res.ok, value |-> res.value,
                                calls |-> res.calls, order |-> scen.finished + 1,
                                end |-> now]]

\* A caller calls searchChannels or getChannelInfo: the code up to the first
\* await runs.
StartRequest(r, op, arg, w) ==
    LET lookup == FirstLookup(op, client.cache, now, arg)
        whole == IF op = "search"
                 THEN searchChannels(client, upstreamExhausted, now, arg, w)
                 ELSE getChannelInfo(client, upstreamExhausted, now, arg, w)
        o == scen.reqs[Other(r)]
        overlapped == /\ o.pc = "flight"
                      /\ o.op = op
                      /\ RequestKey(o.op, o.arg) = RequestKey(op, arg)
    IN /\ scen.reqs[r].pc = "idle"
       /\ IF Len(trim(arg)) = 0 \/ lookup.found
          THEN Completed(r, op, arg, w, whole, 0, overlapped)
          ELSE /\ client' = [client EXCEPT !.cache = lookup.cache]
               /\ scen' = [scen EXCEPT !.reqs[r] =
                              [IdleRequest EXCEPT !.pc = "flight", !.op = op, !.arg = arg,
                                                  !.w = w, !.sent = 1,
                                                  !.overlapped = overlapped]]
               /\ out' = Idle
       /\ UNCHANGED <<keyManager, ret, now, upstreamExhausted>>

\* The answer to the request a call awaits arrives: the call sends its next
\* request, or ends.
AnswerArrives(r) ==
    LET q == scen.reqs[r]
        res == Missed(q.op, client, upstreamExhausted, now, q.arg, q.w)
    IN /\ q.pc = "flight"
       /\ IF q.sent < Len(res.calls)
          THEN /\ scen' = [scen EXCEPT !.reqs[r].sent = @ + 1]
               /\ out' = Idle
               /\ UNCHANGED client
          ELSE Completed(r, q.op, q.arg, q.w, res, q.sent, q.overlapped)
       /\ UNCHANGED <<keyManager, ret, now, upstreamExhausted>>

ConcurrentTick ==
    /\ now + 2 <= MaxNow
    /\ now' = now + 2
    /\ out' = Idle
    /\ UNCHANGED <<kmVars, client, upstreamExhausted>>

ConcurrentNext ==
    \/ \E r \in Requests, query \in ConcurrentQueries, w \in ConcurrentSearchWorlds :
          StartRequest(r, "search", query, w)
    \/ \E r \in Requests, channelId \in {Ch1}, w \in ConcurrentEntityWorlds :
          StartRequest(r, "getChannelInfo", channelId, w)
    \/ \E r \in Requests : AnswerArrives(r)
    \/ ConcurrentTick

SpecConcurrent == ConcurrentInit /\ [][ConcurrentNext]_vars

\* ------------------------------------------ key manager: calls in flight
\* Two requests share one manager. A request takes the key getCurrentKey()
\* returns and sends its call with it; when the call is over it reports to the
\* manager: reportSuccess(), or reportError(...) followed, for a quota error,
\* by rotateKey() and a new call with the key returned. The steps of the two
\* requests interleave in any order. The caller keeps the keys whose calls
\* failed.

NoCall == [pc |-> "idle", key |-> Null]

SharedInit ==
    /\ \E pool \in {p \in DistinctPools : Len(p) >= 2} : keyManager = NewAPIKeyManager(pool)
    /\ now = StartNow
    /\ ret = Ret("new", Null, 0)
    /\ scen = [phase |-> "shared", reqs |-> [r \in Requests |-> NoCall], failed |-> {}]
    /\ client = NewYouTubeAPIClient("K1", FALSE, TRUE)
    /\ upstreamExhausted = {}
    /\ out = Idle

\* A request starts: it sends its call with the current key, if there is one.
SharedSend(r) ==
    LET g == getCurrentKey(keyManager, now)
    IN /\ scen.reqs[r].pc = "idle"
       /\ keyManager' = g.m
       /\ ret' = Ret("getCurrentKey", g.ret, keyManager.currentKeyIndex)
       /\ scen' = [scen EXCEPT !.reqs[r] =
                      IF g.ret = Null THEN NoCall ELSE [pc |-> "flight", key |-> g.ret]]
       /\ UNCHANGED <<now, clVars>>

\* The call of a request succeeded.
SharedSucceed(r) ==
    /\ scen.reqs[r].pc = "flight"
    /\ keyManager' = reportSuccess(keyManager)
    /\ ret' = Ret("reportSuccess", Null, keyManager.currentKeyIndex)
    /\ scen' = [scen EXCEPT !.reqs[r] = NoCall]
    /\ UNCHANGED <<now, clVars>>

\* The call of a request failed: the error is reported; after a quota error
\* the request rotates and sends its call again with the key it gets.
SharedFail(r, isQuotaError) ==
    LET reported == reportError(keyManager, now, ErrorMessage(isQuotaError), isQuotaError)
        rotated == rotateKey(reported, now)
    IN /\ scen.reqs[r].pc = "flight"
       /\ keyManager.keyStatuses[keyManager.apiKeys[keyManager.currentKeyIndex + 1]]
             .consecutiveErrors < MaxErrors
       /\ IF isQuotaError
          THEN /\ keyManager' = rotated.m
               /\ ret' = Ret("rotateKey", rotated.ret, keyManager.currentKeyIndex)
               /\ scen' = [scen EXCEPT
                              !.failed = @ \cup {scen.reqs[r].key},
                              !.reqs[r] = IF rotated.ret = Null THEN NoCall
                                          ELSE [pc |-> "flight", key |-> rotated.ret]]
          ELSE /\ keyManager' = reported
               /\ ret' = Ret("reportError", Null, keyManager.currentKeyIndex)
               /\ scen' = [scen EXCEPT !.failed = @ \cup {scen.reqs[r].key},
                                        !.reqs[r] = NoCall]
       /\ UNCHANGED <<now, clVars>>

SharedNext ==
    \/ \E r \in Requests : SharedSend(r)
    \/ \E r \in Requests : SharedSucceed(r)
    \/ \E r \in Requests, isQuotaError \in BOOLEAN : SharedFail(r, isQuotaError)
    \/ Tick

SpecShared == SharedInit /\ [][SharedNext]_vars

\* ---------------------------------------------------------- the simple rotator
\* A caller constructs a SimpleAPIKeyRotator with a list of distinct keys and
\* calls rotateToNext() and getCurrentKey() in any order. The rotator is held
\* where the other specifications hold the key manager.

RotatorKey(i) == <<"K", i>>

RotatorPools == {[i \in 1..n |-> RotatorKey(i)] : n \in 1..MaxRotatorKeys}

RotatorInit ==
    /\ \E pool \in RotatorPools : keyManager = NewSimpleAPIKeyRotator(pool)
    /\ now = StartNow
    /\ ret = Ret("new", Null, 0)
    /\ scen = [phase |-> "rotator", calls |-> 0]
    /\ client = NewYouTubeAPIClient(<<"K", 1>>, FALSE, TRUE)
    /\ upstreamExhausted = {}
    /\ out = Idle

CallRotateToNext ==
    LET r == rotateToNext(keyManager)
    IN /\ scen.calls < MaxRotatorCalls
       /\ keyManager' = r.rot
       /\ ret' = Ret("rotateToNext", r.ret, keyManager.currentIndex)
       /\ scen' = [scen EXCEPT !.calls = @ + 1]
       /\ UNCHANGED <<now, clVars>>

CallRotatorGetCurrentKey ==
    /\ ret' = Ret("getCurrentKey", rotatorGetCurrentKey(keyManager), keyManager.currentIndex)
    /\ UNCHANGED <<keyManager, now, scen, clVars>>

RotatorNext == CallRotateToNext \/ CallRotatorGetCurrentKey

SpecRotator == RotatorInit /\ [][RotatorNext]_vars

\* ------------------------------------------------------ properties: manager

N == Len(keyManager.apiKeys)

\* The availability rule, on a key status as it stands.
Available(s, t) ==
    s.isActive /\ ~s.quotaExhausted /\ (s.nextRetryTime = Undefined \/ t >= s.nextRetryTime)

\* Indices (0-based) of the keys that are available now.
AvailableIndices ==
    {i \in 0..(N - 1) : Available(keyManager.keyStatuses[keyManager.apiKeys[i + 1]], now)}

MinOf(S) == CHOOSE x \in S : \A y \in S : x <= y

\* The first index of S met when counting on from p + 1 round the list, p itself last.
RoundRobinNext(p, S) ==
    LET d == MinOf({e \in 1..N : ((p + e) % N) \in S}) IN (p + d) % N

\* C7: getCurrentKey() returns null iff no key is available; otherwise it returns an
\* available key: the key at the pointer if that key is available (pointer unchanged),
\* else the first available key in list order, to which the pointer has been moved.
C7_GetCurrentKey ==
    ret.op = "getCurrentKey" =>
        /\ (ret.result = Null) <=> (AvailableIndices = {})
        /\ AvailableIndices # {} =>
              /\ keyManager.currentKeyIndex \in AvailableIndices
              /\ ret.result = keyManager.apiKeys[keyManager.currentKeyIndex + 1]
              /\ keyManager.currentKeyIndex =
                    IF ret.prevIndex \in AvailableIndices
                    THEN ret.prevIndex
                    ELSE MinOf(AvailableIndices)

\* C7 witness: getCurrentKey() found the pointer on an unavailable key of a three-key
\* list, moved it and returned a key, while a later key of the list is available too.
C7_Witness ==
    /\ ret.op = "getCurrentKey"
    /\ N = 3
    /\ ret.result # Null
    /\ keyManager.currentKeyIndex # ret.prevIndex
    /\ Cardinality(AvailableIndices) = 2

\* C8 as stated: rotateKey() moves the pointer to the next available key after the
\* current position and returns it, and returns null, pointer unchanged, if no key
\* other than the current one is available.
C8_Original ==
    ret.op = "rotateKey" =>
        IF AvailableIndices \ {ret.prevIndex} = {}
        THEN ret.result = Null /\ keyManager.currentKeyIndex = ret.prevIndex
        ELSE /\ keyManager.currentKeyIndex =
                   RoundRobinNext(ret.prevIndex, AvailableIndices \ {ret.prevIndex})
             /\ ret.result = keyManager.apiKeys[keyManager.currentKeyIndex + 1]

\* C8 amended: rotateKey() returns null, pointer unchanged, iff no key at all is
\* available; otherwise it moves the pointer to the first available key met when
\* counting round the list from just after the current position, the current position
\* itself coming last, and returns that key: when the current key is the only
\* available key, it returns the current key and the pointer stays.
C8_RotateKey ==
    ret.op = "rotateKey" =>
        IF AvailableIndices = {}
        THEN ret.result = Null /\ keyManager.currentKeyIndex = ret.prevIndex
        ELSE /\ keyManager.currentKeyIndex = RoundRobinNext(ret.prevIndex, AvailableIndices)
             /\ ret.result = keyManager.apiKeys[keyManager.currentKeyIndex + 1]
             /\ ret.result # Null

\* C8 witness: rotateKey() on a three-key list skipped an unavailable key.
C8_Witness ==
    /\ ret.op = "rotateKey"
    /\ N = 3
    /\ ret.result # Null
    /\ keyManager.currentKeyIndex = (ret.prevIndex + 2) % N
    /\ ret.prevIndex \in AvailableIndices

C10_QuotaCoverage ==
    /\ scen.phase = "exhausted" =>
          /\ ret.op \in {"rotateKey", "getCurrentKey"}
          /\ ret.result = Null
          /\ getCurrentKey(keyManager, now).ret = Null
          /\ rotateKey(keyManager, now).ret = Null
          /\ \A k \in DOMAIN keyManager.keyStatuses : keyManager.keyStatuses[k].quotaExhausted
    /\ scen.phase = "reset" =>
          /\ getAvailableKeys(keyManager, now).keys = keyManager.apiKeys
          /\ AvailableIndices = 0..(N - 1)
          /\ ret.op = "getCurrentKey" => ret.result # Null

\* C10 witness: three keys, three report/rotate rounds, then the reset, then a query.
C10_Witness ==
    /\ scen.phase = "reset"
    /\ scen.count = 3
    /\ ret.op = "getCurrentKey"

\* C11: from the pointer at index 0 with every key available and no error
\* reported, the n-th rotateKey() returns the key at index n mod N and leaves
\* the pointer there: N successive calls return the indices 1, 2, ..., N-1, 0,
\* each once, before any index comes a second time.
C11_RoundRobin ==
    scen.phase = "fair" =>
        /\ keyManager.currentKeyIndex = scen.count % N
        /\ ret.op = "rotateKey" =>
              /\ ret.prevIndex = (scen.count - 1) % N
              /\ ret.result = keyManager.apiKeys[(scen.count % N) + 1]

\* C11 witness: the third rotateKey() on a three-key list returned the first key.
C11_Witness ==
    /\ scen.phase = "fair"
    /\ ret.op = "rotateKey"
    /\ N = 3
    /\ scen.count = 3
    /\ ret.result = "K1"
    /\ ret.prevIndex = 2

\* The delay after the k-th error in a row: 5 minutes, doubled at each further
\* error, at most 60 minutes.
RECURSIVE BackoffDelay(_)
BackoffDelay(k) ==
    IF k <= 1 THEN 5
    ELSE IF 2 * BackoffDelay(k - 1) > 60 THEN 60 ELSE 2 * BackoffDelay(k - 1)

\* C12: the k-th transient error reported in a row against a key (k counted
\* from the key's last reportSuccess, lazy reactivations in between or not)
\* sets nextRetryTime = now + min(5 * 2^(k-1), 60): the delay is never below
\* the previous one, never above 60 minutes, and is 5 minutes again for the
\* first error after a reportSuccess.
C12_Backoff ==
    (scen.phase = "backoff" /\ ret.op = "reportError") =>
        LET key == keyManager.apiKeys[keyManager.currentKeyIndex + 1]
            status == keyManager.keyStatuses[key]
            k == scen.count[key]
            delay == status.nextRetryTime - now
        IN /\ delay = BackoffDelay(k)
           /\ delay <= 60
           /\ delay >= 5
           /\ k > 1 => delay >= BackoffDelay(k - 1)
           /\ k = 1 => delay = 5
           /\ ~status.isActive

\* C12 witness: a first error after a success got the 5-minute delay on one
\* key, while the other key stands at its fifth error in a row, reported after
\* time had passed, with the 60-minute delay.
C12_Witness ==
    /\ scen.phase = "backoff"
    /\ ret.op = "reportError"
    /\ N = 2
    /\ LET key == keyManager.apiKeys[keyManager.currentKeyIndex + 1]
           other == keyManager.apiKeys[2 - keyManager.currentKeyIndex]
       IN /\ scen.count[key] = 1
          /\ scen.afterSuccess[key]
          /\ keyManager.keyStatuses[key].nextRetryTime = now + 5
          /\ scen.count[other] = 5
          /\ keyManager.keyStatuses[other].lastErrorTime > StartNow
          /\ keyManager.keyStatuses[other].nextRetryTime
                = keyManager.keyStatuses[other].lastErrorTime + 60

\* A key status in transient backoff: deactivated with a retry time, not
\* quota-exhausted.
InBackoff(s) == ~s.isActive /\ ~s.quotaExhausted /\ s.nextRetryTime # Undefined

\* The calls that evaluate availability.
Evaluations == {"getCurrentKey", "rotateKey", "getStatusSummary"}

\* C13: a key in transient backoff is unavailable while now < nextRetryTime,
\* and an availability evaluation made then leaves its status alone and does
\* not return it; an evaluation made at now >= nextRetryTime reactivates it
\* (isActive set, nextRetryTime unset, error counter kept) and from then on
\* the key is available, with no other call made.
C13_LazyReactivation ==
    [][\A k \in DOMAIN keyManager.keyStatuses :
          LET s == keyManager.keyStatuses[k]
              s2 == keyManager'.keyStatuses[k]
          IN InBackoff(s) =>
               /\ now < s.nextRetryTime => ~Available(s, now)
               /\ ret'.op \in Evaluations =>
                     IF now < s.nextRetryTime
                     THEN /\ s2 = s
                          /\ ret'.result # k
                          /\ ~Includes(getAvailableKeys(keyManager', now').keys, k)
                     ELSE /\ s2 = [s EXCEPT !.isActive = TRUE, !.nextRetryTime = Undefined]
                          /\ Available(s2, now')
                          /\ Includes(getAvailableKeys(keyManager', now').keys, k)
                          /\ ret'.op = "getStatusSummary" => ret'.summary.availableKeys >= 1]_vars

\* C13 witness: getCurrentKey() returned a key that had been put into backoff
\* by a transient error and whose retry time had passed: active again, retry
\* time unset, error counter still standing.
C13_Witness ==
    /\ scen.phase = "free"
    /\ ret.op = "getCurrentKey"
    /\ ret.result # Null
    /\ LET s == keyManager.keyStatuses[ret.result]
       IN /\ s.consecutiveErrors > 0
          /\ s.lastError = ErrorMessage(FALSE)
          /\ ~s.quotaExhausted
          /\ s.isActive
          /\ s.nextRetryTime = Undefined
          /\ now >= s.lastErrorTime + baseRetryDelay

MapOf(c, slot) == IF slot[1] = "channel" THEN c.channelCache ELSE c.videoCache
KeyOf(slot) == slot[2]
SizeOf(c, slot) ==
    IF slot[1] = "channel" THEN getChannelCacheSize(c) ELSE getVideoCacheSize(c)

\* The time to live of a set: the duration given, or four hours.
Ttl(g) == IF g.duration = Undefined THEN 240 ELSE g.duration

\* C15: for every slot last set with value v at time t with a ttl > 0 (given,
\* or the default), the entry, while in the cache, is exactly (v, t, t + ttl),
\* whatever was set there before; it is in the cache while now < t + ttl; and
\* a get of the slot made while now < t + ttl returns v.
C15_SetThenGet ==
    scen.phase = "cache" =>
        \A slot \in Slots :
            LET g == scen.lastSet[slot]
                map == MapOf(client.cache, slot)
            IN (g.set /\ Ttl(g) > 0) =>
                 /\ KeyOf(slot) \in DOMAIN map =>
                       map[KeyOf(slot)] = [data |-> g.value, timestamp |-> g.time,
                                           expiresAt |-> g.time + Ttl(g)]
                 /\ now < g.time + Ttl(g) => KeyOf(slot) \in DOMAIN map
                 /\ (out.op = "get" /\ out.slot = slot /\ now < g.time + Ttl(g)) =>
                       (out.found /\ out.data = g.value)

\* C15 witness: a get returned the value "y" set with a five-minute duration
\* after the clock had moved on, while the other channel slot holds an entry
\* set earlier with the default duration.
C15_Witness ==
    /\ scen.phase = "cache"
    /\ out.op = "get" /\ out.found /\ out.data = "y"
    /\ out.slot \in ChannelSlots
    /\ scen.lastSet[out.slot].time > StartNow
    /\ scen.lastSet[out.slot].duration = baseRetryDelay
    /\ \E other \in ChannelSlots \ {out.slot} :
          /\ scen.lastSet[other].set
          /\ scen.lastSet[other].time = StartNow
          /\ scen.lastSet[other].duration = Undefined
          /\ KeyOf(other) \in DOMAIN client.cache.channelCache

\* C16: a get of a key whose entry has now >= expiresAt returns null and
\* removes that entry and nothing else, so that size() is smaller by one; a
\* get at now < expiresAt returns the entry's value and changes nothing; a get
\* of an absent key returns null and changes nothing.
C16_GetExpiry ==
    [][out'.op = "get" =>
         LET slot == out'.slot
             key == KeyOf(slot)
             map == MapOf(client.cache, slot)
             map2 == MapOf(client'.cache, slot)
         IN IF key \notin DOMAIN map
            THEN ~out'.found /\ client' = client
            ELSE IF now >= map[key].expiresAt
            THEN /\ ~out'.found
                 /\ DOMAIN map2 = DOMAIN map \ {key}
                 /\ \A x \in DOMAIN map2 : map2[x] = map[x]
                 /\ SizeOf(client'.cache, slot) = SizeOf(client.cache, slot) - 1
                 /\ \A sl \in Slots :
                       sl[1] # slot[1] => MapOf(client'.cache, sl) = MapOf(client.cache, sl)
            ELSE /\ out'.found
                 /\ out'.data = map[key].data
                 /\ client' = client]_vars

\* C16 witness: a get made at the very time the entry expired returned null
\* and the entry is gone, another entry of the same mapping being still there.
C16_Witness ==
    /\ scen.phase = "cache"
    /\ out.op = "get" /\ ~out.found
    /\ out.slot \in ChannelSlots
    /\ scen.lastSet[out.slot].set
    /\ now = scen.lastSet[out.slot].time + Ttl(scen.lastSet[out.slot])
    /\ KeyOf(out.slot) \notin DOMAIN client.cache.channelCache
    /\ getChannelCacheSize(client.cache) = 1

\* ------------------------------------------------------- properties: client

\* The last call went to the outside (it was neither rejected nor answered
\* from the cache).
WentOut == out.calls # <<>>

AllReported ==
    \A k \in Range(keyManager.apiKeys) : keyManager.keyStatuses[k].quotaExhausted

\* C1, as the specification states it: with the key list [K1, K2], when the
\* provider answers an entity lookup made with K1 by a quota error and K2 still
\* has quota, the lookup succeeds (retried with K2), K1 is reported exhausted
\* and the manager counts one available key.
C1_Original ==
    (/\ out.op = "getChannelInfo"
     /\ WentOut
     /\ keyManager.apiKeys = <<"K1", "K2">>
     /\ upstreamExhausted = {"K1"}
     /\ out.arg \in out.w.existing
     /\ out.w.fail = {})
    => (/\ out.ok
        /\ out.value = <<out.arg>>
        /\ keyManager.keyStatuses["K1"].quotaExhausted
        /\ getAvailableKeyCount(keyManager, now).ret = 1)

\* C2, as the specification states it: when every key of the list is out of
\* quota at the provider, a provider call is attempted at most N times, every
\* key ends up reported exhausted, and the call fails with the non-retryable
\* quota failure.
C2_Original ==
    (/\ out.op = "getChannelInfo"
     /\ WentOut
     /\ upstreamExhausted = Range(keyManager.apiKeys))
    => (/\ ~out.ok
        /\ out.err.code = 403
        /\ ~out.err.retryable
        /\ Len(out.calls) <= N
        /\ AllReported)

\* C3, as the specification states it: a search that follows, within the TTL,
\* a successful search of the same lower-cased trimmed query that went to the
\* outside, makes no bridge or provider call and returns the same list.
C3_Original ==
    [][(/\ now' = now
        /\ out.op = "search" /\ out.ok /\ WentOut
        /\ out'.op = "search"
        /\ trim(toLowerCase(out'.arg)) = trim(toLowerCase(out.arg))
        /\ now < out.time + searchCacheDuration)
       => (/\ out'.calls = <<>>
           /\ out'.ok
           /\ out'.value = out.value)]_vars

\* The channels the bridge's hits resolve to, through the owners of their videos.
ResolvedChannels(w) ==
    {w.owner[w.hits[i].videoId] : i \in 1..Len(w.hits)} \ {NoChannel}

\* A step of the bridge branch after the health probe throws.
BridgeStepThrows(w) ==
    \/ w.bridgeThrows
    \/ /\ w.hits # <<>>
       /\ \/ "bridge.videos" \in w.fail
          \/ ResolvedChannels(w) # {} /\ "bridge.channels" \in w.fail

\* C4: a search by a client whose bridge is configured and enabled, that
\* misses the cache and whose bridge is unhealthy or throws in any step of its
\* branch, ends exactly as the native search ends: same value or same error,
\* same cache, and the native search call was made.
C4_BridgeFallback ==
    [][(/\ now' = now
        /\ out'.op = "search"
        /\ client.searchService /\ client.useSearchService
        /\ Len(trim(out'.arg)) > 0
        /\ ~getVideos(client.cache, now, SearchCacheKey(out'.arg)).found
        /\ (~out'.w.healthy \/ BridgeStepThrows(out'.w)))
       => LET cl1 == [client EXCEPT
                        !.cache = getVideos(client.cache, now, SearchCacheKey(out'.arg)).cache]
              native == searchChannelsViaAPI(cl1, upstreamExhausted, now, out'.arg,
                                             SearchCacheKey(out'.arg), out'.w)
          IN /\ out'.ok = native.ok
             /\ out'.value = native.value
             /\ out'.err = native.err
             /\ client'.cache = native.cache
             /\ Includes(out'.calls, "native.search")
             /\ ~out'.ok => out'.calls[Len(out'.calls)] \in {"native.search", "native.channels"}]_vars

\* A healthy bridge threw in its branch and the native search returned channels.
C4_Witness ==
    /\ out.op = "search"
    /\ client.searchService /\ client.useSearchService
    /\ out.w.healthy /\ BridgeStepThrows(out.w)
    /\ out.ok /\ out.value = <<Ch2, Ch1>>
    /\ Includes(out.calls, "bridge") /\ Includes(out.calls, "native.search")

\* The last call was a search that found nothing: the bridge returned no hit,
\* or the provider's own search returned no item.
ZeroHits ==
    /\ out.op = "search" /\ out.ok /\ WentOut
    /\ out.calls[Len(out.calls)] \in {"bridge", "native.search"}

\* C5, as the specification states it: after a search with zero hits, on the
\* bridge path or the native path, the empty list is returned and is in the
\* cache under the query's key.
C5_Original ==
    ZeroHits =>
        /\ out.value = <<>>
        /\ getVideos(client.cache, out.time, SearchCacheKey(out.arg)).found
        /\ getVideos(client.cache, out.time, SearchCacheKey(out.arg)).data = <<>>

\* The greatest confidence among the hits whose video belongs to channel c.
SetMax(S) == CHOOSE x \in S : \A y \in S : y <= x
MaxConfidence(w, c) ==
    LET confs == {w.hits[i].confidence : i \in {j \in 1..Len(w.hits) : w.owner[w.hits[j].videoId] = c}}
    IN IF confs = {} THEN 0 ELSE SetMax(confs)

IndexOf(s, x) == CHOOSE i \in 1..Len(s) : s[i] = x

\* The provider's listing of the channels found, before ranking.
Listing(w) ==
    LET ids == extractVideoIds(w.hits)
        owners == [i \in 1..Len(ids) |-> w.owner[ids[i]]]
        known(c) == c # NoChannel
    IN channelItems(Distinct(SelectSeq(owners, known)), w)

\* C6, as the specification states it: the list a bridged search returns is in
\* descending order of each channel's greatest confidence over all the hits
\* that referenced it, and channels of equal score keep their relative order.
C6_Original ==
    (/\ out.op = "search" /\ out.ok
     /\ out.calls = <<"health", "bridge", "bridge.videos", "bridge.channels">>)
    => \A i, j \in 1..Len(out.value) :
          i < j =>
            LET si == MaxConfidence(out.w, out.value[i])
                sj == MaxConfidence(out.w, out.value[j])
            IN /\ si >= sj
               /\ si = sj => IndexOf(Listing(out.w), out.value[i])
                                < IndexOf(Listing(out.w), out.value[j])

\* A string with no character other than spaces (the empty string included).
Blank(str) == \A i \in 1..Len(str) : str[i] = " "

\* C17: a channel lookup for an id with an unexpired cache entry returns the
\* entry's value with no call to the outside and changes nothing; otherwise
\* it makes exactly one call, to the channels endpoint, and on success the
\* value returned is in the cache under the id for the default duration, so
\* that a lookup of the id within that time makes no call, whatever the
\* provider would answer.
C17_EntityCache ==
    [][(now' = now /\ out'.op = "getChannelInfo" /\ ~Blank(out'.arg)) =>
         LET id == out'.arg
             map == client.cache.channelCache
             map2 == client'.cache.channelCache
         IN IF id \in DOMAIN map /\ now < map[id].expiresAt
            THEN /\ out'.ok
                 /\ out'.calls = <<>>
                 /\ out'.value = <<map[id].data>>
                 /\ client' = client
            ELSE /\ out'.calls = <<"channels">>
                 /\ out'.ok =>
                       /\ id \in DOMAIN map2
                       /\ map2[id] = [data |-> out'.value[1], timestamp |-> now,
                                      expiresAt |-> now + 240]
                       /\ \A t \in {now, now + 239} : \A w \in EntityWorlds :
                             LET again == getChannelInfo(client', upstreamExhausted', t, id, w)
                             IN /\ again.calls = <<>>
                                /\ again.ok
                                /\ again.value = out'.value]_vars

\* C17 witness: a lookup made after time had passed, with the client's key out
\* of quota at the provider and a provider that no longer knows the channel,
\* was answered from the cache.
C17_Witness ==
    /\ out.op = "getChannelInfo"
    /\ out.ok /\ out.calls = <<>> /\ out.value = <<Ch1>>
    /\ out.time > StartNow
    /\ client.apiKey \in upstreamExhausted
    /\ Ch1 \notin out.w.existing

\* C18: a search with an empty or blank query, and a channel lookup with an
\* empty or blank id, fail with a failure of code 400 that is not retryable,
\* make no call to the bridge or the provider, and leave the client, its cache
\* included, and the key manager as they were.
C18_BlankArgument ==
    [][(now' = now /\ out'.op \in {"search", "getChannelInfo"} /\ Blank(out'.arg)) =>
         /\ ~out'.ok
         /\ isAPIError(out'.err)
         /\ out'.err.code = 400
         /\ ~out'.err.retryable
         /\ out'.calls = <<>>
         /\ client' = client
         /\ keyManager' = keyManager]_vars

\* C18 witness: a blank query was rejected by a client with a bridge whose
\* cache holds search results and a channel.
C18_Witness ==
    /\ out.op = "search"
    /\ out.arg = <<" ">>
    /\ ~out.ok /\ out.err.code = 400 /\ out.calls = <<>>
    /\ client.searchService /\ client.useSearchService
    /\ client.cache.videoCache # EmptyMap
    /\ client.cache.channelCache # EmptyMap

\* C19, as the specification states it: a search whose trimmed query has
\* fewer than two characters fails with a failure that is not retryable and
\* makes no call to the bridge or the provider.
C19_Original ==
    (out.op = "search" /\ Len(trim(out.arg)) < 2) =>
        /\ ~out.ok
        /\ ~out.err.retryable
        /\ out.calls = <<>>

RECURSIVE Flatten(_)
Flatten(ss) == IF ss = <<>> THEN <<>> ELSE Head(ss) \o Flatten(Tail(ss))

C21_NotFound ==
    [][(/\ now' = now
        /\ out'.op = "getChannelInfo"
        /\ out'.calls = <<"channels">>
        /\ client.apiKey \notin upstreamExhausted
        /\ "channels" \notin out'.w.fail \cup out'.w.malformed
        /\ out'.arg \notin out'.w.existing)
       => LET map == client.cache.channelCache
              map2 == client'.cache.channelCache
          IN /\ ~out'.ok
             /\ isAPIError(out'.err)
             /\ out'.err.code = 404
             /\ ~out'.err.retryable
             /\ out'.arg \notin DOMAIN map2
             /\ \A k \in DOMAIN map2 : k \in DOMAIN map /\ map2[k] = map[k]
             /\ client'.cache.videoCache = client.cache.videoCache]_vars

\* C21 witness: a lookup of a channel the provider does not know failed with
\* 404 while the cache held the other channel, and left no entry for the id.
C21_Witness ==
    /\ out.op = "getChannelInfo"
    /\ out.arg = Ch1
    /\ out.calls = <<"channels">>
    /\ ~out.ok /\ out.err.code = 404 /\ ~out.err.retryable
    /\ out.w.fail = {} /\ Ch1 \notin out.w.existing
    /\ DOMAIN client.cache.channelCache = {Ch2}

\* The last call ended on an answer of the provider that validateResponse
\* refuses: no body, a body without items, or items that are not a list.
EndedOnRefusedShape ==
    /\ out.op \in {"search", "getChannelInfo", "getVideoDetails"}
    /\ WentOut
    /\ out.calls[Len(out.calls)] \in out.w.malformed
    /\ out.w.shape \in RefusedShapes

\* C22, as the specification states it: a call that ends on a structurally
\* malformed answer of the provider (no body, no items field, items not a list)
\* fails with a failure that is not retryable.
C22_Original ==
    EndedOnRefusedShape => (~out.ok /\ isAPIError(out.err) /\ ~out.err.retryable)

\* The last call was a call of the client that failed.
Failed ==
    /\ out.op \in {"search", "getChannelInfo", "getVideoDetails"}
    /\ ~out.ok

\* The last call to the outside made by the last call of the client.
LastPlace == out.calls[Len(out.calls)]

\* The HTTP status the provider answered to that call: 0 without a response.
UpstreamStatus == IF LastPlace \in out.w.fail THEN out.w.failure.code ELSE 200

\* C23, as the specification states it: a failure surfaced after a call to
\* the provider carries the HTTP status of the provider's answer as its code
\* (0 for a network failure), and is retryable exactly when that is a network
\* failure, 429 or a 5xx status.
C23_Original ==
    (Failed /\ WentOut) =>
        /\ out.err.code = UpstreamStatus
        /\ out.err.retryable <=>
              (out.err.code = 0 \/ out.err.code = 429 \/ out.err.code \in 500..599)

\* C23, amended: a failure surfaced because a call to the provider failed in
\* transport carries the HTTP status as its code (0 without a response) and is
\* final exactly for 400, 403 and 404, retryable for every other status; a
\* failure raised before any call carries 400 and one raised on an answer with
\* no record for the id carries 404, both final.
C23_FailureCodes ==
    Failed =>
        /\ isAPIError(out.err)
        /\ ~WentOut => (out.err.code = 400 /\ ~out.err.retryable)
        /\ (WentOut /\ LastPlace \in out.w.fail) =>
              /\ out.err.code = out.w.failure.code
              /\ out.err.retryable <=> out.err.code \notin {400, 403, 404}
        /\ (WentOut /\ LastPlace \notin out.w.fail \cup out.w.malformed) =>
              /\ out.op = "getChannelInfo"
              /\ out.err.code = 404
              /\ ~out.err.retryable

\* C23 witness: after the bridge branch had failed, the provider refused the
\* native search with 401 and the failure surfaced as retryable.
C23_Witness ==
    /\ Failed
    /\ out.op = "search"
    /\ Includes(out.calls, "bridge.videos")
    /\ LastPlace = "native.search"
    /\ out.err.code = 401
    /\ out.err.retryable

\* What was thrown first inside the last call, before any handler saw it.
ThrownInside ==
    IF ~WentOut
    THEN IF out.op = "search"
         THEN createAPIError(400, "Search query cannot be empty",
                             "Please enter a channel name to search", FALSE)
         ELSE createAPIError(400, "Channel ID cannot be empty",
                             "Please provide a valid channel ID", FALSE)
    ELSE IF LastPlace \in out.w.fail THEN out.w.failure
    ELSE IF LastPlace \in out.w.malformed /\ out.w.shape \in RefusedShapes
    THEN validateResponse(MalformedBody(out.w.shape, <<>>))
    ELSE IF LastPlace \in out.w.malformed /\ (out.op = "getChannelInfo" => out.arg \in out.w.existing)
    THEN MappingError
    ELSE createAPIError(404, "Channel not found",
                        "The channel you requested could not be found", FALSE)

\* C24: whatever was thrown inside a search, a channel lookup or a video
\* lookup (a transport error, an exception while mapping an item, a failure
\* raised by the client or by one of its helpers), the caller gets a failure
\* object with code, message, userMessage and retryable, the userMessage
\* being a text of its own; what was thrown is converted once, and a failure
\* object goes through the handlers around it as it is.
C24_FailureShape ==
    Failed =>
        /\ isAPIError(out.err)
        /\ out.err.userMessage # ""
        /\ out.err.userMessage # out.err.message
        /\ out.err.retryable \in BOOLEAN
        /\ out.err = IF isAPIError(ThrownInside) THEN ThrownInside
                      ELSE handleError(ThrownInside)

\* C24 witness: the channel lookup nested in the native search, itself
\* reached after the bridge branch had thrown, got items it could not map;
\* the failure made by the innermost handler came out of three handlers.
C24_Witness ==
    /\ Failed
    /\ out.op = "search"
    /\ out.calls = <<"health", "bridge", "bridge.videos", "bridge.channels",
                     "native.search", "native.channels">>
    /\ out.w.shape = "badItem"
    /\ out.err = createAPIError(500, "TypeError", "unexpected error", TRUE)

\* The number of calls made at a place.
Count(calls, place) == Cardinality({i \in 1..Len(calls) : calls[i] = place})

\* C25: a search calls the provider's search endpoint once or not at all; it
\* calls it exactly when the query is not blank, the cache missed, and the
\* client has no bridge (none configured, or not enabled), or the bridge is
\* unhealthy, or a step of the bridge branch threw. A search answered from the
\* cache, and one that the bridge branch completed, do not call it.
C25_NativeSearchOnce ==
    [][(now' = now /\ out'.op = "search") =>
         LET n == Count(out'.calls, "native.search")
             hit == getVideos(client.cache, now, SearchCacheKey(out'.arg)).found
             bridged == client.searchService /\ client.useSearchService
             w == out'.w
         IN /\ n <= 1
            /\ n = 1 <=> /\ ~Blank(out'.arg)
                          /\ ~hit
                          /\ (~bridged \/ ~w.healthy \/ BridgeStepThrows(w))
            /\ (~Blank(out'.arg) /\ hit) => out'.calls = <<>>
            /\ (out'.ok /\ out'.calls # <<>> /\ LET last == out'.calls[Len(out'.calls)]
                                             IN last \in {"bridge", "bridge.videos", "bridge.channels"})
                  => n = 0]_vars

\* C25 witness: the bridge branch completed a search with no hit, and the
\* provider's search endpoint was not called.
C25_Witness ==
    /\ out.op = "search"
    /\ out.ok /\ out.value = <<>>
    /\ out.calls = <<"health", "bridge">>
    /\ client.searchService /\ client.useSearchService

\* The call ended by storing its result in the cache.
Wrote(q) == q.pc = "done" /\ q.sent > 0 /\ q.ok /\ q.value # <<>>

\* The entry such a call stored.
EntryOf(q) ==
    IF q.op = "search"
    THEN [data |-> q.value, timestamp |-> q.end, expiresAt |-> q.end + searchCacheDuration]
    ELSE [data |-> q.value[1], timestamp |-> q.end, expiresAt |-> q.end + defaultCacheDuration]

\* The entry the cache holds for the key of a call (the key must have one).
Cached(q) ==
    IF q.op = "search"
    THEN client.cache.videoCache[RequestKey(q.op, q.arg)]
    ELSE client.cache.channelCache[RequestKey(q.op, q.arg)]

HasEntry(q) ==
    IF q.op = "search"
    THEN RequestKey(q.op, q.arg) \in DOMAIN client.cache.videoCache
    ELSE RequestKey(q.op, q.arg) \in DOMAIN client.cache.channelCache

\* C26: a call (a search or a channel lookup) started while another call for
\* the same cache key is in flight misses the cache and sends its own
\* requests, all those a call on its own would send in the same world: it
\* is not attached to the call in flight. Once both are over, the cache holds
\* for the key the entry stored by the one that ended last, or, if that one
\* stored none, the entry stored by the other.
C26_NoDeduplication ==
    scen.phase = "concurrent" =>
        \A r \in Requests :
            LET q == scen.reqs[r]
                o == scen.reqs[Other(r)]
                alone == Missed(q.op, [client EXCEPT !.cache = NewAPICache], upstreamExhausted,
                                now, q.arg, q.w)
            IN q.overlapped =>
                 /\ q.pc # "idle"
                 /\ q.sent >= 1
                 /\ o.sent >= 1
                 /\ q.pc = "done" => (q.calls = alone.calls /\ q.sent = Len(q.calls))
                 /\ (q.pc = "done" /\ o.pc = "done") =>
                       LET last == IF q.order > o.order THEN q ELSE o
                           first == IF q.order > o.order THEN o ELSE q
                       IN /\ Wrote(last) => (HasEntry(q) /\ Cached(q) = EntryOf(last))
                          /\ (~Wrote(last) /\ Wrote(first)) =>
                                (HasEntry(q) /\ Cached(q) = EntryOf(first))
                          /\ (~Wrote(last) /\ ~Wrote(first)) => ~HasEntry(q)

\* C26 witness: the second search for a query started while the first was in
\* flight, got the channels in another order and ended first; the first ended
\* later and its list replaced the other in the cache.
C26_Witness ==
    /\ scen.phase = "concurrent"
    /\ scen.reqs[2].overlapped
    /\ scen.reqs[1].pc = "done" /\ scen.reqs[2].pc = "done"
    /\ scen.reqs[1].op = "search"
    /\ scen.reqs[1].arg # scen.reqs[2].arg
    /\ scen.reqs[1].order > scen.reqs[2].order
    /\ scen.reqs[1].end > scen.reqs[2].end
    /\ Wrote(scen.reqs[1]) /\ Wrote(scen.reqs[2])
    /\ scen.reqs[1].value # scen.reqs[2].value
    /\ Cached(scen.reqs[1]) = EntryOf(scen.reqs[1])
    /\ scen.reqs[1].calls = <<"health", "native.search", "native.channels">>
    /\ scen.reqs[2].calls = <<"health", "native.search", "native.channels">>

\* C27, as the specification states it: every entry the cache holds, in
\* either mapping, expires after the time it was created at, whatever the
\* duration it was set with.
C27_Original ==
    scen.phase = "cache" =>
        /\ \A k \in DOMAIN client.cache.channelCache :
              client.cache.channelCache[k].expiresAt > client.cache.channelCache[k].timestamp
        /\ \A k \in DOMAIN client.cache.videoCache :
              client.cache.videoCache[k].expiresAt > client.cache.videoCache[k].timestamp

\* The mapping a slot is not in.
OtherMapOf(c, slot) == IF slot[1] = "channel" THEN c.videoCache ELSE c.channelCache

\* The mapping has the entries it had, but for the key's.
SameButFor(map2, map, key) ==
    /\ DOMAIN map2 \ {key} = DOMAIN map \ {key}
    /\ \A k \in DOMAIN map2 \ {key} : map2[k] = map[k]

\* C28: an invalidation removes the entry of its key from its mapping, expired
\* or not, keeps every other entry of that mapping and leaves the other mapping
\* as it was, even where the other mapping has an entry under the same key; a
\* set changes the entry of its key only and a get removes at most the entry
\* of its key, both leaving the other mapping as it was; clearing one mapping
\* empties it and leaves the other; clearing all empties both.
C28_IndependentMappings ==
    [][LET chan == client.cache.channelCache
           vid == client.cache.videoCache
           chan2 == client'.cache.channelCache
           vid2 == client'.cache.videoCache
       IN /\ (now' = now /\ out'.op \in {"invalidate", "get", "set"}) =>
                LET slot == out'.slot
                    map == MapOf(client.cache, slot)
                    map2 == MapOf(client'.cache, slot)
                IN /\ SameButFor(map2, map, KeyOf(slot))
                   /\ OtherMapOf(client'.cache, slot) = OtherMapOf(client.cache, slot)
                   /\ out'.op = "invalidate" => KeyOf(slot) \notin DOMAIN map2
                   /\ out'.op = "set" => KeyOf(slot) \in DOMAIN map2
          /\ (now' = now /\ out'.op = "clear") =>
                /\ out'.slot = <<"channel">> => (chan2 = EmptyMap /\ vid2 = vid)
                /\ out'.slot = <<"videos">> => (vid2 = EmptyMap /\ chan2 = chan)
                /\ out'.slot = <<"all">> => (chan2 = EmptyMap /\ vid2 = EmptyMap)]_vars

\* C28 witness: the expired entry of a channel was invalidated while the
\* video mapping held an entry under the same key and the channel mapping an
\* entry under another key; both are still there.
C28_Witness ==
    /\ scen.phase = "cache"
    /\ out.op = "invalidate"
    /\ out.slot = <<"channel", Ch1>>
    /\ out.found
    /\ out.data.expiresAt <= now
    /\ Ch1 \notin DOMAIN client.cache.channelCache
    /\ Ch1 \in DOMAIN client.cache.videoCache
    /\ Ch2 \in DOMAIN client.cache.channelCache

\* C29: the constructor called with the empty list throws its error and
\* gives no manager; called with a non-empty list it gives a manager that holds
\* the list, in which every key of the list is active, not quota-exhausted,
\* with no consecutive error and no retry time, so that every key is available,
\* whose pointer is at the first key, and whose getCurrentKey() returns the
\* first key, as the call that follows the construction does.
C29_Construction ==
    [][/\ (scen'.phase = "construct" /\ ret'.op = "new") =>
            IF scen'.apiKeys = <<>>
            THEN /\ ~scen'.ok
                 /\ ret'.result = "At least one API key is required"
                 /\ keyManager' = NoManager
            ELSE /\ scen'.ok
                 /\ keyManager'.apiKeys = scen'.apiKeys
                 /\ DOMAIN keyManager'.keyStatuses = Range(scen'.apiKeys)
                 /\ \A k \in Range(scen'.apiKeys) :
                       LET st == keyManager'.keyStatuses[k]
                       IN /\ st.isActive
                          /\ ~st.quotaExhausted
                          /\ st.consecutiveErrors = 0
                          /\ st.nextRetryTime = Undefined
                 /\ getAvailableKeys(keyManager', now').keys = scen'.apiKeys
                 /\ keyManager'.currentKeyIndex = 0
                 /\ getCurrentKey(keyManager', now').ret = scen'.apiKeys[1]
       /\ (scen.phase = "construct" /\ ret.op = "new" /\ ret'.op = "getCurrentKey") =>
            (ret'.result = scen.apiKeys[1] /\ keyManager' = keyManager)]_vars

\* C29 witness: the first call on a manager constructed with three keys was
\* getCurrentKey(), and it returned the first of them.
C29_Witness ==
    /\ scen.phase = "construct"
    /\ scen.ok
    /\ scen.apiKeys = <<"K1", "K2", "K3">>
    /\ ret.op = "getCurrentKey"
    /\ ret.result = "K1"
    /\ keyManager = NewAPIKeyManager(scen.apiKeys)

\* The manager holds the key back: it is marked quota-exhausted, or inactive
\* until a retry time.
Penalised(k) ==
    \/ keyManager.keyStatuses[k].quotaExhausted
    \/ ~keyManager.keyStatuses[k].isActive

\* C30, as the specification states it: with several requests in flight on
\* one manager, a key is marked quota-exhausted or put into backoff only if a
\* call sent with that very key has failed.
C30_Original ==
    scen.phase = "shared" =>
        \A k \in Range(keyManager.apiKeys) : Penalised(k) => k \in scen.failed

\* The status record of the key at the rotation pointer.
CurrentStatus(m) == m.keyStatuses[m.apiKeys[m.currentKeyIndex + 1]]

\* C31, as the specification states it: a reportError of the quota class leaves
\* consecutiveErrors of the current key as it was; only a reportError of the
\* other class increments it.
C31_Original ==
    [][ret'.op = "reportError" =>
         CurrentStatus(keyManager').consecutiveErrors =
            IF CurrentStatus(keyManager').lastError = ErrorMessage(TRUE)
            THEN CurrentStatus(keyManager).consecutiveErrors
            ELSE CurrentStatus(keyManager).consecutiveErrors + 1]_vars

\* C32: reportError and reportSuccess leave the pointer where it is and change
\* no status record but that of the key at the pointer; and whatever the
\* operation, the key list stays the same and the status records stay those of
\* the keys of the list, none added and none removed.
C32_ReportFrame ==
    [][/\ keyManager'.apiKeys = keyManager.apiKeys
       /\ DOMAIN keyManager'.keyStatuses = DOMAIN keyManager.keyStatuses
       /\ DOMAIN keyManager'.keyStatuses = Range(keyManager'.apiKeys)
       /\ ret'.op \in {"reportError", "reportSuccess"} =>
            /\ keyManager'.currentKeyIndex = keyManager.currentKeyIndex
            /\ \A k \in DOMAIN keyManager.keyStatuses :
                  k # keyManager.apiKeys[keyManager.currentKeyIndex + 1] =>
                     keyManager'.keyStatuses[k] = keyManager.keyStatuses[k]]_vars

\* C32 witness: reportSuccess() was called with the pointer on the second of
\* three keys, which is clean now, while the first key is still in backoff and
\* the third still quota-exhausted.
C32_Witness ==
    /\ scen.phase = "free"
    /\ ret.op = "reportSuccess"
    /\ N = 3
    /\ keyManager.currentKeyIndex = 1
    /\ CurrentStatus(keyManager).isActive
    /\ CurrentStatus(keyManager).consecutiveErrors = 0
    /\ ~keyManager.keyStatuses["K1"].isActive
    /\ keyManager.keyStatuses["K1"].consecutiveErrors = 2
    /\ keyManager.keyStatuses["K3"].quotaExhausted

\* C33, as the specification states it: getStatusSummary() only reads. The
\* pointer is where it was, so the key a following reportError/reportSuccess
\* acts on and the key a following rotateKey() returns are those they would
\* have been without the summary.
C33_Original ==
    [][ret'.op = "getStatusSummary" =>
         /\ keyManager'.currentKeyIndex = keyManager.currentKeyIndex
         /\ rotateKey(keyManager', now').ret = rotateKey(keyManager, now).ret]_vars

\* C34, as the specification states it: the snapshot of a manager built from
\* distinct keys counts every key in exactly one of availableKeys,
\* quotaExhaustedKeys and erroredKeys, so the three add up to totalKeys; and
\* currentKey is null iff availableKeys is 0.
C34_Original ==
    (/\ scen.phase = "free"
     /\ ret.op = "getStatusSummary"
     /\ Cardinality(Range(keyManager.apiKeys)) = N) =>
        /\ ret.summary.availableKeys + ret.summary.quotaExhaustedKeys
              + ret.summary.erroredKeys = ret.summary.totalKeys
        /\ (ret.summary.currentKey = Null) <=> (ret.summary.availableKeys = 0)

\* The entries of the cache as (map, key) pairs.
Entries(c) ==
    {<<"channel", k>> : k \in DOMAIN c.channelCache}
        \cup {<<"videos", k>> : k \in DOMAIN c.videoCache}

EntryAt(c, e) == IF e[1] = "channel" THEN c.channelCache[e[2]] ELSE c.videoCache[e[2]]

\* C35, as the specification states it: a failed search or channel lookup leaves
\* the cache as it was, with no entry added, replaced or removed.
C35_Original ==
    [][(scen.phase = "stale" /\ out'.op \in {"search", "getChannelInfo"} /\ ~out'.ok) =>
          client'.cache = client.cache]_vars

\* C35: a failed search or channel lookup adds no entry to the cache and
\* replaces none: every entry the cache holds after the call it held
\* before, unchanged. The one entry the call may remove is the entry of the
\* key it looked up, in the map it looked it up in, and only if that entry had
\* expired; a call refused for its argument removes nothing.
C35_FailureKeepsCache ==
    [][(scen.phase = "stale" /\ out'.op \in {"search", "getChannelInfo"} /\ ~out'.ok) =>
          /\ \A e \in Entries(client'.cache) :
                e \in Entries(client.cache) /\ EntryAt(client'.cache, e) = EntryAt(client.cache, e)
          /\ \A e \in Entries(client.cache) \ Entries(client'.cache) :
                /\ e = <<IF out'.op = "search" THEN "videos" ELSE "channel",
                         IF out'.op = "search" THEN SearchCacheKey(out'.arg) ELSE out'.arg>>
                /\ now >= EntryAt(client.cache, e).expiresAt
                /\ out'.calls # <<>>]_vars

\* C35 witness: a channel lookup has just failed on a quota error of the
\* provider; it has evicted the expired entry of the channel it asked for, and
\* the live entries of the other channel and of a search are still there.
C35_Witness ==
    /\ scen.phase = "stale"
    /\ out.op = "getChannelInfo"
    /\ out.arg = Ch1
    /\ ~out.ok
    /\ out.err.code = 403
    /\ Ch1 \notin DOMAIN client.cache.channelCache
    /\ Ch2 \in DOMAIN client.cache.channelCache
    /\ client.cache.channelCache[Ch2].expiresAt > now
    /\ SearchCacheKey(<<"a", "b">>) \in DOMAIN client.cache.videoCache

\* No element of the list occurs twice.
NoRepeat(s) == \A i, j \in 1..Len(s) : s[i] = s[j] => i = j

\* The position at which x first occurs in s.
FirstAt(s, x) == CHOOSE i \in 1..Len(s) : s[i] = x /\ \A j \in 1..(i - 1) : s[j] # x

\* The video ids of the hits, and the channels owning those the provider knows.
HitVideos == {out.w.hits[i].videoId : i \in 1..Len(out.w.hits)}
HitOwners == {out.w.owner[v] : v \in HitVideos} \ {NoChannel}

\* C36: in a bridged search the detail lookup is one request, made for the
\* video ids of the hits, each once, in the order in which they first occur
\* among the hits; the channel lookup is one request, made for the channel ids
\* of the videos found, each once; and if the videos found have no channel id,
\* the search returns the empty list and makes no channel lookup, nor any
\* other request.
C36_DistinctRefs ==
    (scen.phase = "refs" /\ out.op = "search") =>
        /\ Len(scen.videoIds) = 1
        /\ Count(out.calls, "bridge.videos") = 1
        /\ NoRepeat(scen.videoIds[1])
        /\ Range(scen.videoIds[1]) = HitVideos
        /\ \A i, j \in 1..Len(scen.videoIds[1]) :
              i < j => FirstAt([h \in 1..Len(out.w.hits) |-> out.w.hits[h].videoId],
                               scen.videoIds[1][i])
                         < FirstAt([h \in 1..Len(out.w.hits) |-> out.w.hits[h].videoId],
                                   scen.videoIds[1][j])
        /\ IF HitOwners = {}
           THEN /\ out.ok
                /\ out.value = <<>>
                /\ out.calls = <<"health", "bridge", "bridge.videos">>
                /\ scen.channelIds = <<>>
           ELSE /\ out.calls = <<"health", "bridge", "bridge.videos", "bridge.channels">>
                /\ NoRepeat(scen.channelIds)
                /\ Range(scen.channelIds) = HitOwners

\* C36 witness: three hits, the first and the last on the same video, and
\* both videos of one channel: the detail lookup was made for the two videos
\* in the order of the hits and the channel lookup for the one channel.
C36_Witness ==
    /\ scen.phase = "refs"
    /\ out.op = "search"
    /\ out.w.hits = <<Hit("vB", 5), Hit("vA", 5), Hit("vB", 5)>>
    /\ scen.videoIds = <<(<<"vB", "vA">>)>>
    /\ out.w.owner = [v \in Videos |-> Ch2]
    /\ scen.channelIds = <<Ch2>>
    /\ out.value = <<Ch2>>

\* C36 witness: none of the videos found has a channel the provider knows; the
\* search returned the empty list after the detail lookup.
C36_WitnessNoOwner ==
    /\ scen.phase = "refs"
    /\ out.op = "search"
    /\ HitOwners = {}
    /\ out.ok
    /\ out.value = <<>>

\* C37, as the specification states it: rotateToNext() returns true and moves
\* to the next key while the current key is not the last of the list, and
\* returns false and stays on the current key when it is the last; so that
\* the keys are visited in list order without a return to the first, true is
\* returned N - 1 times, and after a first false every call returns false.
C37_Original ==
    [][(scen.phase = "rotator" /\ ret'.op = "rotateToNext") =>
          IF keyManager.currentIndex < N - 1
          THEN ret'.result = TRUE /\ keyManager'.currentIndex = keyManager.currentIndex + 1
          ELSE ret'.result = FALSE /\ keyManager'.currentIndex = keyManager.currentIndex]_vars

\* C38: in every state of the manager and for every key, isActive is false
\* exactly when nextRetryTime is set; and the pointer is an index of the key
\* list.
C38_ActiveIffNoRetryTime ==
    /\ \A k \in DOMAIN keyManager.keyStatuses :
          (~keyManager.keyStatuses[k].isActive)
             <=> (keyManager.keyStatuses[k].nextRetryTime # Undefined)
    /\ keyManager.currentKeyIndex \in 0..(N - 1)

\* C38 witness: of three keys, the first was put into backoff and has been
\* reactivated by a call made after its retry time (its error count is still
\* there), the second has failed twice and is in a backoff of ten minutes, and
\* the third is quota-exhausted and waits for midnight.
C38_Witness ==
    /\ scen.phase = "free"
    /\ ret.op = "getCurrentKey"
    /\ N = 3
    /\ keyManager.keyStatuses["K1"].isActive
    /\ keyManager.keyStatuses["K1"].consecutiveErrors = 1
    /\ keyManager.keyStatuses["K1"].nextRetryTime = Undefined
    /\ ~keyManager.keyStatuses["K2"].isActive
    /\ ~keyManager.keyStatuses["K2"].quotaExhausted
    /\ keyManager.keyStatuses["K2"].consecutiveErrors = 2
    /\ keyManager.keyStatuses["K2"].nextRetryTime = now + 2 * baseRetryDelay
    /\ keyManager.keyStatuses["K3"].quotaExhausted
    /\ ~keyManager.keyStatuses["K3"].isActive
    /\ keyManager.keyStatuses["K3"].nextRetryTime = nextMidnight(now)
====
